---- MODULE Spec2Model ----
(***************************************************************************)
(* Model of workers-observability-utils: the LogsTail buffering scheduler  *)
(* (src/src/logsTail.ts) with its TraceItemDb buffer, the timers it arms   *)
(* through scheduler.wait, the promises it hands to ctx.waitUntil and the  *)
(* sendLogs calls of its sinks.                                            *)
(*                                                                         *)
(* Trace items are opaque to LogsTail, so the n-th item ever submitted is  *)
(* represented by the number n.  Arrays are heap objects: `arrays` maps a  *)
(* reference to the contents of the array it denotes, so that a snapshot   *)
(* handed to a sink is a reference, as in the code, and not a copy.        *)
(* Sinks are async functions (LogSink.sendLogs returns a promise): a send  *)
(* fails by rejecting its promise.  maxBufferSize is a positive count or   *)
(* left unset in Spec and SpecTimed; SpecAnyThreshold adds a maxBufferSize *)
(* below zero.  SpecTimed follows the clock of scheduler.wait.             *)
(*                                                                         *)
(* SpecDb is the MetricsDb aggregation store (src/src/metricsDb.ts): its   *)
(* Map of stored metrics under the calls storeMetric and clearAll, with    *)
(* the key of a metric built character by character as the code builds it. *)
(* SpecDbFlush adds the flush sequence toMetricPayloads then clearAll.     *)
(*                                                                         *)
(* SpecMetricsTail is the metrics pipeline on top of that store: the       *)
(* extraction of emissions from the diagnostics channel events of a trace  *)
(* item, their enrichment with contextual tags, and the scheduler.         *)
(* SpecPublish is the publisher functions count, gauge, histogram and      *)
(* distribution; SpecEncode the exponential histogram encoder; SpecSend    *)
(* the sendMetrics of the OTel and the Datadog sink; SpecSendPerSample the *)
(* second DatadogMetricSink of datadog.ts, with one distribution point per *)
(* histogram sample; SpecNanos the timestampToNanos of the OTel sink.      *)
(* These are function calls: `args` holds the call and `result` what it    *)
(* returns.                                                                *)
(***************************************************************************)
EXTENDS Integers, Sequences, FiniteSets, TLC

\* ---- bounds of the model ----
MaxItems == 3          \* trace items submitted over a run
MaxBatch == 2          \* items in one processTraceItems call
MaxFlushId == 3        \* cap on #flushId
NumSinks == 2          \* configured log sinks
MaxInFlight == 2       \* dispatches whose sinks have not all settled

\* ---- program constants ----
DefaultMaxBufferSize == 25
DefaultMaxBufferDuration == 5     \* seconds
MaxBufferDurationCeiling == 30    \* seconds

Sinks == 1..NumSinks
\* options.maxBufferSize as given to the constructor: not given (0 stands for
\* undefined), 1 and 2 as in logsTail.test.ts
MaxBufferSizeOptions == {0, 1, 2}
\* not given, 1, and a maxBufferSize below zero, which nothing in the constructor
\* rejects (0 || 25 is 25, so zero itself cannot be configured)
AnyMaxBufferSizeOptions == {-1, 0, 1}
\* options.maxBufferDuration in seconds: not given (0), 10, and 35, which is
\* above the ceiling
MaxBufferDurationOptions == {0, 10, 35}

VARIABLES
    maxBufferSize,   \* #maxBufferSize
    flushId,         \* #flushId
    flushScheduled,  \* #flushScheduled
    arrays,          \* heap: arrays[r] is the contents of the array with reference r
    dbItems,         \* TraceItemDb.items: reference of the current buffer array
    tasks,           \* promises handed to ctx.waitUntil, in the order handed over
    flushes,         \* dispatches started by #performFlush, in order
    appended,        \* number of trace items submitted so far
    console,         \* the sink counts of the last flush report written to the console
    durationOption,     \* options.maxBufferDuration as given to the constructor
    maxBufferDuration,  \* #maxBufferDuration, in seconds
    ages,            \* ages[i]: milliseconds since the i-th buffered item was appended
    remaining,       \* remaining[t]: milliseconds left of the scheduler.wait of task t
    metrics,         \* MetricsDb.metrics, the entries of the Map in insertion order
    dbCalls,         \* the calls made on the MetricsDb, in order
    exported,        \* what getAllMetrics and toMetricPayloads returned, call by call
    args,            \* the arguments of the call of a function taken on its own
    result           \* what that call returned or published, none before the call

timevars == <<durationOption, maxBufferDuration, ages, remaining>>
dbvars == <<metrics, dbCalls, exported>>
fnvars == <<args, result>>
logvars == <<maxBufferSize, flushId, flushScheduled, arrays, dbItems, tasks,
             flushes, appended, console>>

vars == <<maxBufferSize, flushId, flushScheduled, arrays, dbItems, tasks,
          flushes, appended, console, timevars, dbvars, fnvars>>

Min(a, b) == IF a <= b THEN a ELSE b

\* LogsTail constructor: options.maxBufferSize || 25
ConstructMaxBufferSize(opt) == IF opt = 0 THEN DefaultMaxBufferSize ELSE opt

\* a plausible bug: the ceiling is not applied
ConstructMaxBufferDurationUnclamped(opt) ==
    IF opt = 0 THEN DefaultMaxBufferDuration ELSE opt

\* LogsTail constructor: Math.min(options.maxBufferDuration || 5, 30)
ConstructMaxBufferDuration(opt) ==
    Min(IF opt = 0 THEN DefaultMaxBufferDuration ELSE opt, MaxBufferDurationCeiling)

\* the argument of scheduler.wait: this.#maxBufferDuration * 1000
WaitMillis(seconds) == seconds * 1000

\* ---- TraceItemDb ----
\* a plausible bug: unshift in place of push, the batch goes in front
StoreTraceItemsFront(arr, ref, batch) == [arr EXCEPT ![ref] = batch \o arr[ref]]

\* storeTraceItems: this.items.push(...items), in place on the current array
StoreTraceItems(arr, ref, batch) == [arr EXCEPT ![ref] = arr[ref] \o batch]

\* getTraceItems: returns the array itself
GetTraceItems(ref) == ref

\* a plausible bug: clear() truncates the array in place (this.items.length = 0)
ClearInPlace(arr, ref) == [heap |-> [arr EXCEPT ![ref] = <<>>], items |-> ref]

\* a plausible bug: clear() does nothing, the flushed items stay buffered
ClearForgotten(arr, ref) == [heap |-> arr, items |-> ref]

\* clear: this.items = [] allocates a fresh array and leaves the old one alone
Clear(arr, ref) == [heap |-> Append(arr, <<>>), items |-> Len(arr) + 1]

Buffer == arrays[dbItems]

\* ---- LogsTail ----
\* a plausible bug: the flush id is never advanced
NextFlushIdStuck(f) == f

\* the increments this.#flushId++ (size path) and ++this.#flushId (arming)
NextFlushId(f) == f + 1

\* a plausible bug: the sinks are called one after the other, the next one
\* once the one before has settled, so only the first is called at once
InvokeSinksInTurn(items) ==
    [s \in Sinks |-> [status |-> IF s = 1 THEN "pending" ELSE "waiting",
                      arg |-> items]]

\* this.#logSinks.map((sink) => sink.sendLogs(items)): every sink is called
\* with the snapshot before anything is awaited
InvokeSinks(items) == [s \in Sinks |-> [status |-> "pending", arg |-> items]]

Settled(sinks) == \A s \in Sinks : sinks[s].status \in {"fulfilled", "rejected"}

\* a plausible bug: Promise.all in place of Promise.allSettled, so that one
\* rejection lands in the catch and no per-sink outcome is reported
PerformFlushSettleAll(sinks) ==
    IF \E s \in Sinks : sinks[s].status = "rejected"
    THEN [ok |-> 0, failed |-> 0, outcome |-> "fulfilled"]
    ELSE [ok |-> Cardinality(Sinks), failed |-> 0, outcome |-> "fulfilled"]

\* the rest of #performFlush once Promise.allSettled has resolved: the counts
\* it logs (successfulSinks.length, errors.length) and how its promise settles
PerformFlushSettle(sinks) ==
    [ok      |-> Cardinality({s \in Sinks : sinks[s].status = "fulfilled"}),
     failed  |-> Cardinality({s \in Sinks : sinks[s].status = "rejected"}),
     outcome |-> "fulfilled"]

\* a plausible bug: scheduleFlush without its try/catch
ScheduleFlushNoCatch(waitOutcome) == waitOutcome

\* scheduleFlush: try { await scheduler.wait(...) ... } catch (error) {}
ScheduleFlushSettle(waitOutcome) == "fulfilled"

\* a plausible bug: the flushScheduled test is missing, every batch arms a timer
ShouldArmAlways(scheduled, len) == len > 0

\* the test that arms a timer: not already scheduled, and something to flush
ShouldArm(scheduled, len) == ~scheduled /\ len > 0

\* a plausible bug: the wake flushes without comparing the flush ids
StillCurrentUnchecked(localFlushId, current) == TRUE

\* the test of the timer wake: localFlushId === this.#flushId
StillCurrent(localFlushId, current) == localFlushId = current

\* a plausible bug: the size test is strict (length > maxBufferSize)
OverThresholdStrict(len, max) == len > max

\* the size test: getTraceItems().length >= this.#maxBufferSize
OverThreshold(len, max) == len >= max

InFlight == {f \in DOMAIN flushes : ~flushes[f].done}

\* a plausible bug: the empty snapshot is dispatched like any other
EmptySnapshotDispatched(items) == FALSE

\* the test of #performFlush that returns before any sink is called
EmptySnapshot(items) == Len(items) = 0

\* #performFlush up to its first await, run for the task `who` of `ts` on heap `arr`
PerformFlush(arr, who, ts) ==
    LET items == GetTraceItems(dbItems)
        c == Clear(arr, dbItems)
    IN  /\ Cardinality(InFlight) < MaxInFlight
        /\ flushScheduled' = FALSE
        /\ arrays' = c.heap
        /\ dbItems' = c.items
        /\ IF EmptySnapshot(arr[items])
           THEN /\ flushes' = flushes
                /\ tasks' = [ts EXCEPT ![who].state = "fulfilled"]
           ELSE /\ flushes' = Append(flushes,
                       [items |-> items, handed |-> arr[items],
                        sinks |-> InvokeSinks(items), task |-> who,
                        done |-> FALSE])
                /\ tasks' = [ts EXCEPT ![who].state = "flushing",
                                       ![who].flush = Len(flushes) + 1]

InitOf(options) ==
    /\ maxBufferSize \in {ConstructMaxBufferSize(o) : o \in options}
    /\ flushId = 0
    /\ flushScheduled = FALSE
    /\ arrays = << <<>> >>
    /\ dbItems = 1
    /\ tasks = <<>>
    /\ flushes = <<>>
    /\ appended = 0
    /\ console = [ok |-> 0, failed |-> 0]

\* the clock is not followed: default duration, no time has passed
InitUntimed ==
    /\ durationOption = 0
    /\ maxBufferDuration = ConstructMaxBufferDuration(0)
    /\ ages = <<>>
    /\ remaining = <<>>

\* a MetricsDb just constructed: metrics = new Map()
InitMetricsDb ==
    /\ metrics = <<>>
    /\ dbCalls = <<>>
    /\ exported = <<>>

\* no function is looked at on its own
InitNoCall ==
    /\ args = <<>>
    /\ result = <<>>

Init == InitOf(MaxBufferSizeOptions) /\ InitUntimed /\ InitMetricsDb /\ InitNoCall

\* construction with any maxBufferSize the constructor accepts
InitAnyThreshold ==
    InitOf(AnyMaxBufferSizeOptions) /\ InitUntimed /\ InitMetricsDb /\ InitNoCall

\* processTraceItems(traceItems, ctx) with a batch of k fresh trace items
ProcessTraceItems(k) ==
    /\ appended + k <= MaxItems
    /\ LET batch == [i \in 1..k |-> appended + i]
           arr == StoreTraceItems(arrays, dbItems, batch)
           len == Len(arr[GetTraceItems(dbItems)])
       IN  /\ appended' = appended + k
           /\ UNCHANGED <<maxBufferSize, console>>
           /\ IF OverThreshold(len, maxBufferSize)
              THEN /\ flushId < MaxFlushId
                   /\ flushId' = NextFlushId(flushId)
                   /\ PerformFlush(arr, Len(tasks) + 1,
                          Append(tasks, [kind |-> "size", localFlushId |-> 0,
                                         wait |-> "none", state |-> "flushing",
                                         flush |-> 0]))
              ELSE IF ShouldArm(flushScheduled, len)
              THEN /\ flushId < MaxFlushId
                   /\ flushScheduled' = TRUE
                   /\ flushId' = NextFlushId(flushId)
                   /\ tasks' = Append(tasks,
                          [kind |-> "timer", localFlushId |-> NextFlushId(flushId),
                           wait |-> "pending", state |-> "waiting", flush |-> 0])
                   /\ arrays' = arr
                   /\ UNCHANGED <<dbItems, flushes>>
              ELSE /\ arrays' = arr
                   /\ UNCHANGED <<flushId, flushScheduled, dbItems, tasks, flushes>>

\* the scheduler.wait of timer t resolves: the rest of scheduleFlush runs
TimerWake(t) ==
    /\ t \in DOMAIN tasks
    /\ tasks[t].state = "waiting"
    /\ UNCHANGED <<maxBufferSize, flushId, appended, console>>
    /\ IF StillCurrent(tasks[t].localFlushId, flushId)
       THEN PerformFlush(arrays, t, [tasks EXCEPT ![t].wait = "resolved"])
       ELSE /\ tasks' = [tasks EXCEPT ![t].wait = "resolved", ![t].state = "fulfilled"]
            /\ UNCHANGED <<flushScheduled, arrays, dbItems, flushes>>

\* the scheduler.wait of timer t rejects: the catch of scheduleFlush runs
TimerReject(t) ==
    /\ t \in DOMAIN tasks
    /\ tasks[t].state = "waiting"
    /\ tasks' = [tasks EXCEPT ![t].wait = "rejected",
                              ![t].state = ScheduleFlushSettle("rejected")]
    /\ UNCHANGED <<maxBufferSize, flushId, flushScheduled, arrays, dbItems,
                   flushes, appended, console>>

\* the promise returned by sink s for flush f settles; when it is the last one
\* Promise.allSettled resolves, #performFlush logs its report and returns, its
\* results are dropped, and the task awaiting it settles
SinkSettle(f, s, outcome) ==
    /\ f \in DOMAIN flushes
    /\ flushes[f].sinks[s].status = "pending"
    /\ LET sinks == [flushes[f].sinks EXCEPT ![s].status = outcome]
           report == PerformFlushSettle(sinks)
       IN  IF Settled(sinks)
           THEN /\ flushes' = [flushes EXCEPT
                       ![f].sinks = [x \in Sinks |-> [sinks[x] EXCEPT !.status = "settled"]],
                       ![f].done = TRUE]
                /\ console' = [ok |-> report.ok, failed |-> report.failed]
                /\ tasks' = [tasks EXCEPT ![flushes[f].task].state = report.outcome]
           ELSE /\ flushes' = [flushes EXCEPT ![f].sinks = sinks]
                /\ UNCHANGED <<tasks, console>>
    /\ UNCHANGED <<maxBufferSize, flushId, flushScheduled, arrays, dbItems, appended>>

SinkFulfil(f, s) == SinkSettle(f, s, "fulfilled")
SinkReject(f, s) == SinkSettle(f, s, "rejected")

\* the steps of LogsTail with the clock not followed and no MetricsDb in use
Next ==
    \/ \E k \in 0..MaxBatch :
          ProcessTraceItems(k) /\ UNCHANGED <<timevars, dbvars, fnvars>>
    \/ \E t \in DOMAIN tasks :
          TimerWake(t) /\ UNCHANGED <<timevars, dbvars, fnvars>>
    \/ \E t \in DOMAIN tasks :
          TimerReject(t) /\ UNCHANGED <<timevars, dbvars, fnvars>>
    \/ \E f \in DOMAIN flushes : \E s \in Sinks :
          SinkFulfil(f, s) /\ UNCHANGED <<timevars, dbvars, fnvars>>
    \/ \E f \in DOMAIN flushes : \E s \in Sinks :
          SinkReject(f, s) /\ UNCHANGED <<timevars, dbvars, fnvars>>

Spec == Init /\ [][Next]_vars

\* the same program, with a maxBufferSize below zero among the configurations:
\* the one configuration in which #performFlush can meet an empty buffer
SpecAnyThreshold == InitAnyThreshold /\ [][Next]_vars

\* ---- LogsTail with the clock followed ----
\* the clock advances in steps of the default duration
TickMillis == WaitMillis(DefaultMaxBufferDuration)

InitTimed ==
    /\ InitOf(MaxBufferSizeOptions)
    /\ durationOption \in MaxBufferDurationOptions
    /\ maxBufferDuration = ConstructMaxBufferDuration(durationOption)
    /\ ages = <<>>
    /\ remaining = <<>>
    /\ InitMetricsDb
    /\ InitNoCall

\* the ages of the buffered items after a step that took no time: none once
\* the buffer array was replaced, else one more per item of the batch
AgesAfter(k) ==
    IF dbItems' # dbItems THEN <<>> ELSE ages \o [i \in 1..k |-> 0]

\* processTraceItems at the present instant; a timer it arms waits
\* #maxBufferDuration * 1000 milliseconds
TimedProcessTraceItems(k) ==
    /\ ProcessTraceItems(k)
    /\ ages' = AgesAfter(k)
    /\ remaining' =
          IF Len(tasks') = Len(tasks) THEN remaining
          ELSE Append(remaining,
                      IF tasks'[Len(tasks')].kind = "timer"
                      THEN WaitMillis(maxBufferDuration) ELSE 0)
    /\ UNCHANGED <<durationOption, maxBufferDuration, dbvars, fnvars>>

\* scheduler.wait of timer t resolves, which it does when its time is up
TimedWake(t) ==
    /\ t \in DOMAIN tasks
    /\ remaining[t] = 0
    /\ TimerWake(t)
    /\ ages' = AgesAfter(0)
    /\ UNCHANGED <<durationOption, maxBufferDuration, remaining, dbvars, fnvars>>

\* time passes; it cannot pass the end of a pending scheduler.wait, whose
\* timer wakes on time, and the sends of a dispatch settle before the clock
\* moves on (they have no part in the timing of the scheduler)
Tick ==
    /\ \A t \in DOMAIN tasks :
          tasks[t].state = "waiting" => remaining[t] >= TickMillis
    /\ InFlight = {}
    /\ ages' = [i \in DOMAIN ages |-> ages[i] + TickMillis]
    /\ remaining' = [t \in DOMAIN remaining |->
                        IF tasks[t].state = "waiting"
                        THEN remaining[t] - TickMillis ELSE remaining[t]]
    /\ UNCHANGED <<maxBufferSize, flushId, flushScheduled, arrays, dbItems, tasks,
                   flushes, appended, console, durationOption, maxBufferDuration,
                   dbvars, fnvars>>

TimedNext ==
    \/ \E k \in 0..MaxBatch : TimedProcessTraceItems(k)
    \/ \E t \in DOMAIN tasks : TimedWake(t)
    \/ Tick
    \/ \E f \in DOMAIN flushes : \E s \in Sinks :
          SinkFulfil(f, s) /\ UNCHANGED <<timevars, dbvars, fnvars>>
    \/ \E f \in DOMAIN flushes : \E s \in Sinks :
          SinkReject(f, s) /\ UNCHANGED <<timevars, dbvars, fnvars>>

\* every scheduler.wait resolves, and resolves on time
SpecTimed == InitTimed /\ [][TimedNext]_vars

\* ---- MetricsDb (src/src/metricsDb.ts) ----
\* A string is the sequence of its characters, a tag mapping is the sequence
\* of its [key, value] entries in insertion order (what Object.entries
\* returns), and a tag value is a string or a number.
MaxEmissions == 3      \* calls made on the MetricsDb over a run

Str(chars) == [t |-> "string", v |-> chars]
Num(n) == [t |-> "number", v |-> n]

DigitChars == <<"0", "1", "2", "3", "4", "5", "6", "7", "8", "9">>

RECURSIVE NumberToString(_)
\* the decimal digits of a natural number
NumberToString(n) ==
    IF n < 10 THEN <<DigitChars[n + 1]>>
    ELSE NumberToString(n \div 10) \o <<DigitChars[(n % 10) + 1]>>

\* `${value}` in a template literal
TemplateValue(value) ==
    IF value.t = "number" THEN NumberToString(value.v) ELSE value.v

\* the order of the characters of the tag keys under localeCompare
Collation ==
    <<"a", "b", "c", "d", "e", "f", "g", "h", "i", "j", "k", "l", "m", "n", "o",
      "p", "q", "r", "s", "t", "u", "v", "w", "x", "y", "z">>
Rank(c) == CHOOSE i \in DOMAIN Collation : Collation[i] = c

RECURSIVE LocaleCompare(_, _)
\* keyA.localeCompare(keyB): negative, zero or positive
LocaleCompare(x, y) ==
    IF x = <<>> /\ y = <<>> THEN 0
    ELSE IF x = <<>> THEN -1
    ELSE IF y = <<>> THEN 1
    ELSE IF Rank(Head(x)) < Rank(Head(y)) THEN -1
    ELSE IF Rank(Head(x)) > Rank(Head(y)) THEN 1
    ELSE LocaleCompare(Tail(x), Tail(y))

RECURSIVE InsertEntry(_, _)
\* one entry put in its place in a sorted list of entries
InsertEntry(e, sorted) ==
    IF sorted = <<>> THEN <<e>>
    ELSE IF LocaleCompare(e.key, Head(sorted).key) < 0 THEN <<e>> \o sorted
    ELSE <<Head(sorted)>> \o InsertEntry(e, Tail(sorted))

RECURSIVE SortEntries(_)
\* entries.sort(([keyA], [keyB]) => keyA.localeCompare(keyB))
SortEntries(entries) ==
    IF entries = <<>> THEN <<>>
    ELSE InsertEntry(entries[Len(entries)], SortEntries(SubSeq(entries, 1, Len(entries) - 1)))

RECURSIVE Join(_, _)
\* parts.join(sep)
Join(parts, sep) ==
    IF parts = <<>> THEN <<>>
    ELSE IF Len(parts) = 1 THEN parts[1]
    ELSE parts[1] \o sep \o Join(Tail(parts), sep)

\* a plausible bug: the entries are serialised in insertion order
SerializeTagsUnsorted(tags) ==
    Join([i \in DOMAIN tags |-> tags[i].key \o <<":">> \o TemplateValue(tags[i].value)],
         <<",">>)

\* serializeTags: sort the entries by key, map each to `${key}:${value}`,
\* join with ","
SerializeTags(tags) ==
    LET sorted == SortEntries(tags)
    IN  Join([i \in DOMAIN sorted |->
                 sorted[i].key \o <<":">> \o TemplateValue(sorted[i].value)],
             <<",">>)

\* the string values of the MetricType enum
MetricTypeString(type) ==
    CASE type = "COUNT" -> <<"C", "O", "U", "N", "T">>
      [] type = "GAUGE" -> <<"G", "A", "U", "G", "E">>
      [] type = "HISTOGRAM" -> <<"H", "I", "S", "T", "O", "G", "R", "A", "M">>
      [] type = "DISTRIBUTION" ->
            <<"D", "I", "S", "T", "R", "I", "B", "U", "T", "I", "O", "N">>

\* a plausible bug: the kind is left out of the key
GetMetricKeyNoType(metric) ==
    metric.name \o <<":">> \o SerializeTags(metric.tags)

\* getMetricKey: `${metric.name}:${metric.type}:${tagKey}`
GetMetricKey(metric) ==
    metric.name \o <<":">> \o MetricTypeString(metric.type) \o <<":">>
        \o SerializeTags(metric.tags)

\* Number(metric.value) of a value that is a number
ToNumber(value) == value

\* this.metrics.get(key): the position of the entry of that key, 0 for none
MapGet(map, key) ==
    IF \E i \in DOMAIN map : map[i].key = key
    THEN CHOOSE i \in DOMAIN map : map[i].key = key
    ELSE 0

\* this.metrics.set(key, stored): in place for a key already there, else at
\* the end
MapSet(map, key, stored) ==
    LET i == MapGet(map, key)
        entry == [key |-> key, metric |-> stored]
    IN  IF i = 0 THEN Append(map, entry) ELSE [map EXCEPT ![i] = entry]

\* a plausible bug: a COUNT overwrites like a GAUGE
CountValueOverwrite(existing, metric) == ToNumber(metric.value)

\* the value stored for a COUNT
CountValue(existing, metric) ==
    IF Len(existing) > 0 THEN existing[1].metric.value + ToNumber(metric.value)
    ELSE ToNumber(metric.value)

\* a plausible bug: a GAUGE keeps the emission with the greatest timestamp
GaugeStoredNewest(existing, metric) ==
    IF Len(existing) > 0 /\ existing[1].metric.lastUpdated > metric.timestamp
    THEN existing[1].metric
    ELSE [type |-> metric.type, name |-> metric.name, tags |-> metric.tags,
          value |-> ToNumber(metric.value), lastUpdated |-> metric.timestamp]

\* the entry stored for a GAUGE
GaugeStored(existing, metric) ==
    [type |-> metric.type, name |-> metric.name, tags |-> metric.tags,
     value |-> ToNumber(metric.value), lastUpdated |-> metric.timestamp]

\* a plausible bug: the samples are kept sorted by time
HistogramValueSorted(existing, metric) ==
    LET old == IF Len(existing) > 0 THEN existing[1].metric.value ELSE <<>>
        new == [value |-> ToNumber(metric.value), time |-> metric.timestamp]
        before == SelectSeq(old, LAMBDA x : x.time <= new.time)
        after == SelectSeq(old, LAMBDA x : x.time > new.time)
    IN  before \o <<new>> \o after

\* the value stored for a HISTOGRAM: [...existingValue, {value, time}]
HistogramValue(existing, metric) ==
    (IF Len(existing) > 0 THEN existing[1].metric.value ELSE <<>>)
        \o <<[value |-> ToNumber(metric.value), time |-> metric.timestamp]>>

\* a plausible bug: a default case that stores a metric of any other kind
\* the way a gauge is stored
StoreMetricAnyKind(map, metric) ==
    LET i == MapGet(map, GetMetricKey(metric))
    IN  MapSet(map, GetMetricKey(metric),
               GaugeStored(IF i = 0 THEN <<>> ELSE <<map[i]>>, metric))

\* storeMetric(metric) on the Map `map`: a switch with no default case;
\* existing is the entry found under the key, as a list of one or none
StoreMetric(map, metric) ==
    LET key == GetMetricKey(metric)
        i == MapGet(map, key)
        existing == IF i = 0 THEN <<>> ELSE <<map[i]>>
    IN  CASE metric.type = "COUNT" ->
               MapSet(map, key,
                   [type |-> metric.type, name |-> metric.name,
                    tags |-> metric.tags, value |-> CountValue(existing, metric),
                    lastUpdated |-> metric.timestamp])
          [] metric.type = "GAUGE" ->
               MapSet(map, key, GaugeStored(existing, metric))
          [] metric.type = "HISTOGRAM" ->
               MapSet(map, key,
                   [type |-> metric.type, name |-> metric.name,
                    tags |-> metric.tags, value |-> HistogramValue(existing, metric),
                    lastUpdated |-> metric.timestamp])
          [] OTHER -> map

\* getMetricCount: this.metrics.size
GetMetricCount(map) == Len(map)

\* getAllMetrics: Array.from(this.metrics.values())
GetAllMetrics(map) == [i \in DOMAIN map |-> map[i].metric]

\* the emissions storeMetric is called with
TagsAB == <<[key |-> <<"a">>, value |-> Num(1)], [key |-> <<"b">>, value |-> Num(2)]>>
TagsBA == <<[key |-> <<"b">>, value |-> Num(2)], [key |-> <<"a">>, value |-> Num(1)]>>
TagsComma == <<[key |-> <<"a">>, value |-> Str(<<"1", ",", "b", ":", "2">>)]>>
TagsA == <<[key |-> <<"a">>, value |-> Num(1)]>>
Samples == {[value |-> 5, timestamp |-> 2000], [value |-> 3, timestamp |-> 1000]}

Emissions ==
    {[type |-> k, name |-> <<"m">>, value |-> x.value, tags |-> t,
      timestamp |-> x.timestamp] :
        k \in {"COUNT", "GAUGE", "HISTOGRAM"}, t \in {TagsAB, TagsBA, TagsComma},
        x \in Samples}
    \cup
    {[type |-> "COUNT", name |-> <<"n">>, value |-> 5, tags |-> TagsAB,
      timestamp |-> 1000],
     [type |-> "COUNT", name |-> <<"m">>, value |-> 5, tags |-> TagsA,
      timestamp |-> 1000],
     [type |-> "DISTRIBUTION", name |-> <<"m">>, value |-> 5, tags |-> TagsAB,
      timestamp |-> 1000]}

\* a LogsTail that is never called, beside the MetricsDb
InitDb ==
    /\ InitOf({0})
    /\ InitUntimed
    /\ InitMetricsDb
    /\ InitNoCall

\* metricsDb.storeMetric(e)
StoreMetricCall(e) ==
    /\ Len(dbCalls) < MaxEmissions
    /\ metrics' = StoreMetric(metrics, e)
    /\ dbCalls' = Append(dbCalls, e)
    /\ UNCHANGED <<maxBufferSize, flushId, flushScheduled, arrays, dbItems, tasks,
                   flushes, appended, console, timevars, exported, fnvars>>

\* a plausible bug: clearAll leaves the entries where they are
MapClearNothing(map) == map

\* this.metrics.clear()
MapClear(map) == <<>>

\* metricsDb.clearAll()
ClearAll ==
    /\ Len(dbCalls) < MaxEmissions
    /\ metrics' = MapClear(metrics)
    /\ dbCalls' = Append(dbCalls, [type |-> "clearAll"])
    /\ UNCHANGED <<maxBufferSize, flushId, flushScheduled, arrays, dbItems, tasks,
                   flushes, appended, console, timevars, exported, fnvars>>

DbNext ==
    \/ \E e \in Emissions : StoreMetricCall(e)
    \/ ClearAll

SpecDb == InitDb /\ [][DbNext]_vars

\* ---- MetricsDb: snapshots and clearAll ----
MaxDbCalls == 5        \* calls made on the MetricsDb over a run with snapshots

\* a plausible bug: the HISTOGRAM payload is given lastUpdated as timestamp
ExportedPayloadWithTime(metric) ==
    <<[type |-> metric.type, name |-> metric.name, value |-> metric.value,
       tags |-> metric.tags, timestamp |-> metric.lastUpdated]>>

\* the body of the loop of toMetricPayloads: what is pushed for one stored
\* metric, as a list of one payload or of none
ExportedPayload(metric) ==
    CASE metric.type \in {"COUNT", "GAUGE"} ->
            <<[type |-> metric.type, name |-> metric.name, value |-> metric.value,
               tags |-> metric.tags, timestamp |-> metric.lastUpdated]>>
      [] metric.type = "HISTOGRAM" ->
            <<[type |-> "HISTOGRAM", name |-> metric.name, value |-> metric.value,
               tags |-> metric.tags]>>
      [] OTHER -> <<>>

RECURSIVE ToMetricPayloads(_)
\* toMetricPayloads: for (const metric of this.metrics.values()) push
ToMetricPayloads(map) ==
    IF map = <<>> THEN <<>>
    ELSE ToMetricPayloads(SubSeq(map, 1, Len(map) - 1))
            \o ExportedPayload(map[Len(map)].metric)

\* the emissions stored in the runs with snapshots
FlushEmissions ==
    {[type |-> k, name |-> <<"m">>, value |-> x.value, tags |-> TagsAB,
      timestamp |-> x.timestamp] :
        k \in {"COUNT", "GAUGE", "HISTOGRAM"}, x \in Samples}

FlushStoreMetric(e) ==
    /\ Len(dbCalls) < MaxDbCalls
    /\ metrics' = StoreMetric(metrics, e)
    /\ dbCalls' = Append(dbCalls, e)
    /\ UNCHANGED <<maxBufferSize, flushId, flushScheduled, arrays, dbItems, tasks,
                   flushes, appended, console, timevars, exported, fnvars>>

FlushClearAll ==
    /\ Len(dbCalls) < MaxDbCalls
    /\ metrics' = MapClear(metrics)
    /\ dbCalls' = Append(dbCalls, [type |-> "clearAll"])
    /\ UNCHANGED <<maxBufferSize, flushId, flushScheduled, arrays, dbItems, tasks,
                   flushes, appended, console, timevars, exported, fnvars>>

\* a snapshot: getAllMetrics() and toMetricPayloads(), called one after the
\* other; storeMetric builds a new object and a new sample array at every
\* call and writes to none it has stored, so what was returned is a value
Snapshot ==
    /\ Len(dbCalls) < MaxDbCalls
    /\ exported' = Append(exported,
                      [at |-> Len(dbCalls) + 1,
                       all |-> GetAllMetrics(metrics),
                       payloads |-> ToMetricPayloads(metrics)])
    /\ dbCalls' = Append(dbCalls, [type |-> "snapshot"])
    /\ UNCHANGED <<maxBufferSize, flushId, flushScheduled, arrays, dbItems, tasks,
                   flushes, appended, console, timevars, metrics, fnvars>>

DbFlushNext ==
    \/ \E e \in FlushEmissions : FlushStoreMetric(e)
    \/ FlushClearAll
    \/ Snapshot

SpecDbFlush == InitDb /\ [][DbFlushNext]_vars

\* ---- MetricsTail ----
\* The extractor and the scheduler of MetricsTail follow sections 4.1 and 4.3
\* of the specification and the calls of metricsTail.test.ts; the store is
\* the MetricsDb above.  One processTraceItems call carries one trace item.
MaxTraceItems == 2     \* trace items processed by the MetricsTail over a run

\* METRICS_CHANNEL_NAME
MetricsChannelName == "workers-observability-metrics"

\* options.maxBufferSize of the MetricsTail: not given, 1 as in
\* metricsTail.test.ts, and 6, which one trace item can reach or not
MetricsMaxBufferSizeOptions == {0, 1, 6}

\* the kinds a stored metric can have (section 3 of the specification)
RecognizedKinds == {"COUNT", "GAUGE", "HISTOGRAM"}

\* the number NaN
NaN == [t |-> "NaN"]

\* the tag keys that the code names, character by character
TagKey(name) ==
    CASE name = "scriptName" -> <<"s", "c", "r", "i", "p", "t", "N", "a", "m", "e">>
      [] name = "executionModel" ->
            <<"e", "x", "e", "c", "u", "t", "i", "o", "n", "M", "o", "d", "e", "l">>
      [] name = "outcome" -> <<"o", "u", "t", "c", "o", "m", "e">>
      [] name = "versionId" -> <<"v", "e", "r", "s", "i", "o", "n", "I", "d">>
      [] name = "entrypoint" -> <<"e", "n", "t", "r", "y", "p", "o", "i", "n", "t">>
      [] name = "trigger" -> <<"t", "r", "i", "g", "g", "e", "r">>
      [] name = "environment" ->
            <<"e", "n", "v", "i", "r", "o", "n", "m", "e", "n", "t">>

\* the contextual tags of a trace item: script identity, execution model,
\* outcome, version id, entrypoint
ContextualTags(item) ==
    <<[key |-> TagKey("scriptName"), value |-> Str(item.scriptName)],
      [key |-> TagKey("executionModel"), value |-> Str(item.executionModel)],
      [key |-> TagKey("outcome"), value |-> Str(item.outcome)],
      [key |-> TagKey("versionId"), value |-> Str(item.scriptVersion.id)],
      [key |-> TagKey("entrypoint"), value |-> Str(item.entrypoint)]>>

HasKey(tags, key) == \E i \in DOMAIN tags : tags[i].key = key

\* { ...base, ...top }: the entries of base, each with the value top gives
\* to its key if it has one, then the entries of top under new keys
Spread(base, top) ==
    [i \in DOMAIN base |->
        IF HasKey(top, base[i].key)
        THEN top[CHOOSE j \in DOMAIN top : top[j].key = base[i].key]
        ELSE base[i]]
    \o SelectSeq(top, LAMBDA e : ~HasKey(base, e.key))

\* a plausible bug: the contextual tags are not merged in
EnrichTagsOwnOnly(contextual, own, ownWins) == own

\* the tags of an accepted emission: the contextual tags and its own; which
\* of the two values is kept under a key that both have is left open by
\* section 4.1, so both outcomes are followed
EnrichTags(contextual, own, ownWins) ==
    IF ownWins THEN Spread(contextual, own) ELSE Spread(own, contextual)

\* a value that is a finite number
IsFiniteNumber(value) == value.t = "number"

\* the test that accepts a metrics-channel message: a recognized kind and a
\* finite value
IsValidMetric(message) ==
    /\ message.type \in RecognizedKinds
    /\ IsFiniteNumber(message.value)

\* the metrics-channel events of a trace item
MetricsEvents(item) ==
    SelectSeq(item.diagnosticsChannelEvents,
              LAMBDA ev : ev.channel = MetricsChannelName)

\* the accepted user emissions of a trace item, enriched
UserMetrics(item, ownWins) ==
    LET accepted == SelectSeq(MetricsEvents(item),
                              LAMBDA ev : IsValidMetric(ev.message))
    IN  [i \in DOMAIN accepted |->
            [type |-> accepted[i].message.type,
             name |-> accepted[i].message.name,
             value |-> accepted[i].message.value.v,
             tags |-> EnrichTags(ContextualTags(item),
                                 accepted[i].message.tags, ownWins),
             timestamp |-> accepted[i].timestamp]]

\* name.startsWith(prefix)
StartsWith(name, prefix) ==
    /\ Len(name) >= Len(prefix)
    /\ SubSeq(name, 1, Len(prefix)) = prefix

\* the prefix of the names of the standard metrics
WorkerPrefix == <<"w", "o", "r", "k", "e", "r", ".">>

\* the standard metrics of a trace item: CPU time, wall time, a request
\* counter and an outcome counter, with the contextual tags only
StandardMetrics(item) ==
    <<[type |-> "GAUGE", name |-> WorkerPrefix \o <<"c", "p", "u">>,
       value |-> item.cpuTime, tags |-> ContextualTags(item),
       timestamp |-> item.eventTimestamp],
      [type |-> "GAUGE", name |-> WorkerPrefix \o <<"w", "a", "l", "l">>,
       value |-> item.wallTime, tags |-> ContextualTags(item),
       timestamp |-> item.eventTimestamp],
      [type |-> "COUNT", name |-> WorkerPrefix \o <<"r", "e", "q">>,
       value |-> 1, tags |-> ContextualTags(item),
       timestamp |-> item.eventTimestamp],
      [type |-> "COUNT", name |-> WorkerPrefix \o <<"o", "u", "t">>,
       value |-> 1, tags |-> ContextualTags(item),
       timestamp |-> item.eventTimestamp]>>

\* a plausible bug: a malformed event makes the extraction of the whole
\* trace item come back empty
ExtractMetricsAllOrNothing(item, ownWins) ==
    IF \E i \in DOMAIN MetricsEvents(item) :
           ~IsValidMetric(MetricsEvents(item)[i].message)
    THEN <<>>
    ELSE UserMetrics(item, ownWins) \o StandardMetrics(item)

\* the extractor: the accepted user emissions, then the standard metrics
ExtractMetrics(item, ownWins) ==
    UserMetrics(item, ownWins) \o StandardMetrics(item)

RECURSIVE StoreMetrics(_, _)
\* storeMetric of each emission of the list, in order
StoreMetrics(map, es) ==
    IF es = <<>> THEN map
    ELSE StoreMetric(StoreMetrics(map, SubSeq(es, 1, Len(es) - 1)), es[Len(es)])

\* the lists of diagnostics-channel events of the trace items: a COUNT with
\* the tag environment, a GAUGE with a tag of its own under the contextual key
\* outcome, the invalid payload of metricsTail.test.ts, a COUNT of value NaN,
\* a GAUGE whose value is a string that is no number, and a COUNT on another
\* channel
EventLists ==
    LET EventOn(channel, type, name, value, tags, timestamp) ==
            [channel |-> channel, timestamp |-> timestamp,
             message |-> [type |-> type, name |-> name, value |-> value,
                          tags |-> tags]]
        NotANumber ==
            Str(<<"n", "o", "t", "-", "a", "-", "n", "u", "m", "b", "e", "r">>)
        UserTags == <<[key |-> TagKey("environment"), value |-> Str(<<"t">>)]>>
        CollidingTags == <<[key |-> TagKey("outcome"), value |-> Str(<<"x">>)]>>
        UserCount ==
            EventOn(MetricsChannelName, "COUNT", <<"u">>, Num(1), UserTags, 1000)
        UserGauge ==
            EventOn(MetricsChannelName, "GAUGE", <<"u">>, Num(2), CollidingTags, 2000)
        InvalidKind ==
            EventOn(MetricsChannelName, "INVALID_TYPE", <<"i">>, NotANumber, <<>>, 1000)
        InvalidValue == EventOn(MetricsChannelName, "COUNT", <<"i">>, NaN, <<>>, 1000)
        StringValue ==
            EventOn(MetricsChannelName, "GAUGE", <<"i">>, NotANumber, <<>>, 1000)
        OtherChannel == EventOn("other", "COUNT", <<"o">>, Num(1), UserTags, 1000)
    IN  {<<>>, <<UserCount>>, <<StringValue>>, <<OtherChannel>>,
         <<InvalidKind, UserCount>>, <<UserCount, InvalidValue>>,
         <<UserCount, UserGauge>>}

\* the trace items handed to processTraceItems
TraceItems ==
    {[scriptName |-> <<"t">>, executionModel |-> <<"i">>, outcome |-> o,
      scriptVersion |-> [id |-> <<"v", "1">>], entrypoint |-> <<"d">>,
      cpuTime |-> 10, wallTime |-> 20, eventTimestamp |-> 3000,
      diagnosticsChannelEvents |-> evs] :
        o \in {<<"o", "k">>, <<"e", "x">>}, evs \in EventLists}

\* a MetricsTail with an empty store, beside a LogsTail that is never called
InitMetricsTail ==
    /\ InitOf(MetricsMaxBufferSizeOptions)
    /\ InitUntimed
    /\ InitMetricsDb
    /\ InitNoCall

\* the flush of the MetricsTail: the scheduler is idle again, the store is
\* snapshot and cleared, and the snapshot goes to the sinks unless it is empty
MetricsFlush(map, calls) ==
    /\ flushScheduled' = FALSE
    /\ metrics' = MapClear(map)
    /\ exported' = IF GetMetricCount(map) = 0 THEN exported
                   ELSE Append(exported,
                           [at |-> Len(calls), all |-> GetAllMetrics(map),
                            payloads |-> ToMetricPayloads(map)])

\* processTraceItems([item], ctx): extract and merge, then the size check
\* and the debounce of section 4.3
MetricsProcessTraceItems(item, ownWins) ==
    LET map == StoreMetrics(metrics, ExtractMetrics(item, ownWins))
        calls == Append(dbCalls, [type |-> "traceItem", item |-> item,
                                  ownWins |-> ownWins, outcome |-> "returned"])
    IN  /\ Len(SelectSeq(dbCalls, LAMBDA c : c.type = "traceItem")) < MaxTraceItems
        /\ dbCalls' = calls
        /\ IF OverThreshold(GetMetricCount(map), maxBufferSize)
           THEN /\ flushId' = NextFlushId(flushId)
                /\ MetricsFlush(map, calls)
                /\ tasks' = Append(tasks, [kind |-> "size", state |-> "fulfilled",
                                           localFlushId |-> flushId])
           ELSE /\ metrics' = map
                /\ exported' = exported
                /\ IF ShouldArm(flushScheduled, GetMetricCount(map))
                   THEN /\ flushScheduled' = TRUE
                        /\ flushId' = NextFlushId(flushId)
                        /\ tasks' = Append(tasks,
                              [kind |-> "timer", state |-> "waiting",
                               localFlushId |-> NextFlushId(flushId)])
                   ELSE UNCHANGED <<flushScheduled, flushId, tasks>>
        /\ UNCHANGED <<maxBufferSize, arrays, dbItems, flushes, appended, console,
                       timevars, fnvars>>

\* the timer of task t fires: it flushes only if its flush id is still the
\* current one
MetricsWake(t) ==
    /\ t \in DOMAIN tasks
    /\ tasks[t].kind = "timer" /\ tasks[t].state = "waiting"
    /\ tasks' = [tasks EXCEPT ![t].state = "fulfilled"]
    /\ dbCalls' = Append(dbCalls, [type |-> "wake"])
    /\ IF StillCurrent(tasks[t].localFlushId, flushId)
       THEN MetricsFlush(metrics, dbCalls')
       ELSE UNCHANGED <<flushScheduled, metrics, exported>>
    /\ UNCHANGED <<maxBufferSize, flushId, arrays, dbItems, flushes, appended,
                   console, timevars, fnvars>>

\* the outcomes of the merge of the tags to follow for a trace item: both
\* where an accepted emission has a tag under a contextual key, one where
\* none has, since the two then give the same tags
MergeOutcomes(item) ==
    IF \E i \in DOMAIN MetricsEvents(item) :
           /\ IsValidMetric(MetricsEvents(item)[i].message)
           /\ \E j \in DOMAIN ContextualTags(item) :
                  HasKey(MetricsEvents(item)[i].message.tags,
                         ContextualTags(item)[j].key)
    THEN BOOLEAN
    ELSE {TRUE}

MetricsTailNext ==
    \/ \E item \in TraceItems : \E ownWins \in MergeOutcomes(item) :
           MetricsProcessTraceItems(item, ownWins)
    \/ \E t \in DOMAIN tasks : MetricsWake(t)

SpecMetricsTail == InitMetricsTail /\ [][MetricsTailNext]_vars

\* ---- the publishers metrics.count, gauge, histogram, distribution ----
\* A call is the publisher and the list of the arguments given to it;
\* an argument that is not given is missing from the end of the list.  What
\* metricsChannel.publish was called with is the list `result`.
\* a parameter with a default value: the argument if it is given
Param(actuals, i, default) == IF i <= Len(actuals) THEN actuals[i] ELSE default

\* count(name, value = 1, tags = {})
Count(actuals) ==
    [type |-> "COUNT", name |-> actuals[1], value |-> Param(actuals, 2, 1),
     tags |-> Param(actuals, 3, <<>>)]

\* gauge(name, value, tags = {})
Gauge(actuals) ==
    [type |-> "GAUGE", name |-> actuals[1], value |-> actuals[2],
     tags |-> Param(actuals, 3, <<>>)]

\* histogram(name, value, options = {}, tags = {})
Histogram(actuals) ==
    [type |-> "HISTOGRAM", name |-> actuals[1], value |-> actuals[2],
     tags |-> Param(actuals, 4, <<>>), options |-> Param(actuals, 3, <<>>)]

\* distribution(name, value, tags = {})
Distribution(actuals) ==
    [type |-> "DISTRIBUTION", name |-> actuals[1], value |-> actuals[2],
     tags |-> Param(actuals, 3, <<>>)]

\* the calls made on the publishers
PublisherCalls ==
    LET names == {<<"m">>, <<"n">>}
        values == {5, 150}
        objects == {<<>>, TagsA,
                    <<[key |-> <<"e">>, value |-> Str(<<"/", "a", "p", "i">>)]>>}
        two == {<<n, v>> : n \in names, v \in values}
        three == {<<n, v, o>> : n \in names, v \in values, o \in objects}
        four == {<<n, v, o, t>> : n \in names, v \in values, o \in objects,
                                  t \in objects}
    IN  {[fn |-> "count", actuals |-> a] : a \in {<<n>> : n \in names} \cup two \cup three}
        \cup {[fn |-> f, actuals |-> a] : f \in {"gauge", "distribution"},
                                          a \in two \cup three}
        \cup {[fn |-> "histogram", actuals |-> a] : a \in two \cup three \cup four}

\* a call about to be made, beside a LogsTail and a MetricsDb never called
InitPublish ==
    /\ InitOf({0})
    /\ InitUntimed
    /\ InitMetricsDb
    /\ args \in PublisherCalls
    /\ result = <<>>

\* the call is made: the body of the publisher runs to its end, publish
\* included
Publish ==
    /\ result = <<>>
    /\ result' = <<CASE args.fn = "count" -> Count(args.actuals)
                     [] args.fn = "gauge" -> Gauge(args.actuals)
                     [] args.fn = "histogram" -> Histogram(args.actuals)
                     [] args.fn = "distribution" -> Distribution(args.actuals)>>
    /\ UNCHANGED <<logvars, timevars, dbvars, args>>

SpecPublish == InitPublish /\ [][Publish]_vars

\* ---- OtelMetricSink: exponential histogram data points ----
\* A sample value is a double: [k |-> n, below |-> FALSE] is n / 4, and
\* [k |-> n, below |-> TRUE], for n / 4 a power of two or its negative, is
\* the double next to n / 4 towards zero (7.999999999999999 for k = 32).
\* Values that are not finite are not among the samples.  Counts are encoded
\* as the strings of their decimal digits, as String(n) gives them.
MaxSamples == 3        \* samples in one histogram

\* v > 0, v < 0, v === 0
Positive(v) == v.k > 0
Negative(v) == v.k < 0
IsZero(v) == v.k = 0

\* Math.abs(v)
MathAbs(v) == [v EXCEPT !.k = IF v.k < 0 THEN -v.k ELSE v.k]

\* a - b < 0 in the comparator of the sort
LessThan(a, b) ==
    \/ a.k < b.k
    \/ a.k = b.k /\ a.k > 0 /\ a.below /\ ~b.below
    \/ a.k = b.k /\ a.k < 0 /\ ~a.below /\ b.below

RECURSIVE InsertNumber(_, _)
InsertNumber(v, sorted) ==
    IF sorted = <<>> THEN <<v>>
    ELSE IF LessThan(v, Head(sorted)) THEN <<v>> \o sorted
    ELSE <<Head(sorted)>> \o InsertNumber(v, Tail(sorted))

RECURSIVE SortNumbers(_)
\* numbers.sort((a, b) => a - b), on the array it is called on
SortNumbers(numbers) ==
    IF numbers = <<>> THEN <<>>
    ELSE InsertNumber(numbers[Len(numbers)],
                      SortNumbers(SubSeq(numbers, 1, Len(numbers) - 1)))

RECURSIVE IntLog2(_)
\* the whole part of the base-2 logarithm of a positive integer
IntLog2(n) == IF n < 2 THEN 0 ELSE 1 + IntLog2(n \div 2)

\* the whole part of the base-2 logarithm of a strictly positive value, in
\* exact arithmetic
ExactFloorLog2(v) == IntLog2(v.k) - 2 - (IF v.below THEN 1 ELSE 0)

\* Math.floor(Math.log2(v)) for v > 0.  Math.log2 returns a double close to
\* the logarithm.  For the double just below 2^n the logarithm is n minus
\* about 1.6e-16, and from n = 3 on (and for n <= -2) the double nearest to
\* it is n itself: a Math.log2 that returns the nearest double (`nearest`)
\* returns n, and the floor is then one above the exact one.  For the other
\* values the logarithm is a whole number, returned as it is, or far from one.
MathFloorLog2(v, nearest) ==
    LET n == IntLog2(v.k) - 2
    IN  IF v.below /\ nearest /\ (n >= 3 \/ n <= -2) THEN n
        ELSE ExactFloorLog2(v)

\* a plausible bug: an empty group gets one bucket, of count zero
EmptyBucketsOneBucket == [offset |-> 0, bucketCounts |-> <<NumberToString(0)>>]

\* what buildExponentialBuckets returns if (values.length === 0)
EmptyBuckets == [offset |-> 0, bucketCounts |-> <<>>]

\* buildExponentialBuckets(values)
BuildExponentialBuckets(values, nearest) ==
    IF Len(values) = 0 THEN EmptyBuckets
    ELSE
        LET bucketIndex == [i \in DOMAIN values |->
                               IF ~Positive(values[i]) THEN 0
                               ELSE MathFloorLog2(values[i], nearest)]
            keys == {bucketIndex[i] : i \in DOMAIN values}
            minBucket == CHOOSE b \in keys : \A c \in keys : b <= c
            maxBucket == CHOOSE b \in keys : \A c \in keys : c <= b
        IN  [offset |-> minBucket,
             bucketCounts |->
                [j \in 1..(maxBucket - minBucket + 1) |->
                    NumberToString(Cardinality(
                        {i \in DOMAIN values : bucketIndex[i] = minBucket + j - 1}))]]

RECURSIVE TimesDigits(_, _, _)
\* the decimal digits (last one first in `digits`) times a factor, plus a
\* carry, as digits in the usual order: BigInt multiplication has no
\* rounding and no overflow
TimesDigits(digits, factor, carry) ==
    IF digits = <<>>
    THEN IF carry = 0 THEN <<>> ELSE NumberToString(carry)
    ELSE LET p == (CHOOSE d \in 0..9 : DigitChars[d + 1] = Head(digits)) * factor + carry
         IN  TimesDigits(Tail(digits), factor, p \div 10) \o <<DigitChars[(p % 10) + 1]>>

Reverse(seq) == [i \in DOMAIN seq |-> seq[Len(seq) + 1 - i]]

\* a plausible bug: microseconds in place of nanoseconds
TimestampToMicros(timestampMs) ==
    LET digits == TimesDigits(Reverse(NumberToString(timestampMs)), 1000, 0)
    IN  IF digits = <<>> THEN <<"0">> ELSE digits

\* timestampToNanos: String(BigInt(Math.round(timestampMs)) * BigInt(1000000))
\* for a time that is a whole number of milliseconds, not negative
TimestampToNanos(timestampMs) ==
    LET digits == TimesDigits(Reverse(NumberToString(timestampMs)), 1000000, 0)
    IN  IF digits = <<>> THEN <<"0">> ELSE digits

RECURSIVE SumOfQuarters(_)
SumOfQuarters(numbers) ==
    IF numbers = <<>> THEN 0 ELSE Head(numbers).k + SumOfQuarters(Tail(numbers))

\* a field that is there only under a condition: ...(cond && { name: value })
Optional(cond, field) == IF cond THEN field ELSE <<>>

\* a plausible bug: the zero samples are put with the positive ones
PositiveGroupWithZero(sortedValues) ==
    SelectSeq(sortedValues, LAMBDA v : ~Negative(v))

\* sortedValues.filter((v) => v > 0)
PositiveGroup(sortedValues) == SelectSeq(sortedValues, Positive)

\* buildExponentialHistogramDataPoint(values, attributes) at the time `now`;
\* sum is in quarters, exact but for the samples just below a power of two,
\* which count as that power
BuildExponentialHistogramDataPoint(values, attributes, now, nearest) ==
    LET sortedValues == SortNumbers([i \in DOMAIN values |-> values[i].value])
        positive == BuildExponentialBuckets(PositiveGroup(sortedValues), nearest)
        negativeGroup == SelectSeq(sortedValues, Negative)
        negative == BuildExponentialBuckets(
                        [i \in DOMAIN negativeGroup |-> MathAbs(negativeGroup[i])],
                        nearest)
    IN  [attributes |-> attributes,
         count |-> NumberToString(Len(sortedValues)),
         startTimeUnixNano |->
             TimestampToNanos(IF Len(values) > 0 THEN values[1].time ELSE now),
         timeUnixNano |->
             TimestampToNanos(IF Len(values) > 0 THEN values[Len(values)].time
                              ELSE now),
         sum |-> SumOfQuarters(sortedValues),
         scale |-> 0,
         zeroCount |-> NumberToString(Len(SelectSeq(sortedValues, IsZero)))]
        @@ Optional(Len(positive.bucketCounts) > 0, [positive |-> positive])
        @@ Optional(Len(negative.bucketCounts) > 0, [negative |-> negative])

\* the values and the times of the samples
SampleValues ==
    {[k |-> n, below |-> FALSE] : n \in {0, 2, 4, 12, -4}}
        \cup {[k |-> 32, below |-> TRUE]}
HistogramSamples == {[value |-> v, time |-> t] : v \in SampleValues, t \in {1000, 2000}}

SeqsUpTo(S, n) == UNION {[1..m -> S] : m \in 0..n}

\* the calls: the data point of a sample sequence, and the bucket set of a
\* group of values, positive or not; `nearest` is the Math.log2 of the build
EncoderCalls ==
    {[fn |-> "buildExponentialHistogramDataPoint", values |-> vs, now |-> 1500,
      nearest |-> b] : vs \in SeqsUpTo(HistogramSamples, MaxSamples), b \in BOOLEAN}
    \cup
    {[fn |-> "buildExponentialBuckets", values |-> vs, now |-> 1500,
      nearest |-> b] : vs \in SeqsUpTo(SampleValues, MaxSamples), b \in BOOLEAN}

InitEncode ==
    /\ InitOf({0})
    /\ InitUntimed
    /\ InitMetricsDb
    /\ args \in EncoderCalls
    /\ result = <<>>

\* the call is made and returns
Encode ==
    /\ result = <<>>
    /\ result' =
         <<IF args.fn = "buildExponentialBuckets"
           THEN BuildExponentialBuckets(args.values, args.nearest)
           ELSE BuildExponentialHistogramDataPoint(args.values, <<>>, args.now,
                                                   args.nearest)>>
    /\ UNCHANGED <<logvars, timevars, dbvars, args>>

SpecEncode == InitEncode /\ [][Encode]_vars

\* ---- the metric sinks OtelMetricSink (otel.ts) and DatadogMetricSink ----
\* A call of sendMetrics is the sink, the payloads, whether the Datadog API
\* key is there and whether the responses of fetch are ok.  What the call
\* did is its requests, in order, and how its promise settled.  A tag value
\* is a string or a number here, so no tag is undefined or null.
MaxPayloads == 2       \* payloads in one sendMetrics call

\* the value of the tag of that key, as a list of one or none
TagOf(tags, key) ==
    LET found == SelectSeq(tags, LAMBDA e : e.key = key)
    IN  IF found = <<>> THEN <<>> ELSE <<found[1].value>>

\* ...customTags
CustomTags(tags) ==
    SelectSeq(tags, LAMBDA e :
        e.key \notin {TagKey(n) : n \in {"scriptName", "executionModel", "versionId",
                                          "trigger"}})

\* convertTagsToAttributes of entries that are all defined
ConvertTagsToAttributes(entries) ==
    [i \in DOMAIN entries |->
        [key |-> entries[i].key,
         value |-> [stringValue |-> TemplateValue(entries[i].value)]]]

\* the resource attributes of buildOTLPPayload: the entries that are defined
ResourceAttributes(tags) ==
    LET entry(key, found) ==
            IF found = <<>> THEN <<>> ELSE <<[key |-> key, value |-> found[1]]>>
    IN  <<[key |-> "cloud.provider", value |-> [stringValue |-> "Cloudflare"]],
          [key |-> "cloud.service",
           value |-> [stringValue |->
               IF TagOf(tags, TagKey("executionModel"))
                      = <<Str(<<"s", "t", "a", "t", "e", "l", "e", "s", "s">>)>>
               THEN "Workers" ELSE "Durable Objects"]],
          [key |-> "cloud.region", value |-> [stringValue |-> "earth"]]>>
        \o ConvertTagsToAttributes(
               entry("faas.name", TagOf(tags, TagKey("scriptName")))
               \o entry("service.name", TagOf(tags, TagKey("scriptName")))
               \o entry("faas.trigger", TagOf(tags, TagKey("trigger")))
               \o entry("faas.version", TagOf(tags, TagKey("versionId"))))

\* payloadToMetric of otel.ts: timestampToNanos(payload.timestamp) comes
\* first, and BigInt(Math.round(undefined)) throws a RangeError; then a sum
\* for COUNT, a gauge for GAUGE, and undefined for any other kind
PayloadToMetric(payload, attributes) ==
    IF "timestamp" \notin DOMAIN payload
    THEN [threw |-> TRUE, metric |-> <<>>]
    ELSE LET timeUnixNano == TimestampToNanos(payload.timestamp)
         IN  [threw |-> FALSE,
              metric |->
                 CASE payload.type = "COUNT" ->
                        <<[name |-> payload.name,
                           sum |-> [asInt |-> NumberToString(payload.value),
                                    attributes |-> attributes,
                                    timeUnixNano |-> timeUnixNano]]>>
                   [] payload.type = "GAUGE" ->
                        <<[name |-> payload.name,
                           gauge |-> [asDouble |-> payload.value,
                                      attributes |-> attributes,
                                      timeUnixNano |-> timeUnixNano]]>>
                   [] OTHER -> <<>>]

RECURSIVE BuildOTLPPayload(_)
\* buildOTLPPayload: metrics.map(...), then the filter that drops undefined
BuildOTLPPayload(payloads) ==
    IF payloads = <<>> THEN [threw |-> FALSE, resourceMetrics |-> <<>>]
    ELSE LET m == PayloadToMetric(
                      Head(payloads),
                      ConvertTagsToAttributes(CustomTags(Head(payloads).tags)))
             rest == BuildOTLPPayload(Tail(payloads))
         IN  IF m.threw \/ rest.threw
             THEN [threw |-> TRUE, resourceMetrics |-> <<>>]
             ELSE [threw |-> FALSE,
                   resourceMetrics |->
                      [i \in DOMAIN m.metric |->
                          [resource |-> ResourceAttributes(Head(payloads).tags),
                           metric |-> m.metric[i]]]
                      \o rest.resourceMetrics]

\* OtelMetricSink.sendMetrics
OtelSendMetrics(payloads, responseOk) ==
    IF Len(payloads) = 0 THEN [requests |-> <<>>, outcome |-> "fulfilled"]
    ELSE LET built == BuildOTLPPayload(payloads)
         IN  IF built.threw THEN [requests |-> <<>>, outcome |-> "rejected"]
             ELSE [requests |-> <<[endpoint |-> "/v1/metrics",
                                   series |-> built.resourceMetrics]>>,
                   outcome |-> IF responseOk THEN "fulfilled" ELSE "rejected"]

\* formatTags
FormatTags(tags) ==
    LET custom == CustomTags(tags)
        pushed(prefix, found) ==
            IF found = <<>> THEN <<>> ELSE <<<<prefix>> \o TemplateValue(found[1])>>
    IN  [i \in DOMAIN custom |->
            custom[i].key \o <<":">> \o TemplateValue(custom[i].value)]
        \o pushed("worker_script:", TagOf(tags, TagKey("scriptName")))
        \o pushed("execution_model:", TagOf(tags, TagKey("executionModel")))
        \o pushed("version:", TagOf(tags, TagKey("versionId")))
        \o pushed("trigger:", TagOf(tags, TagKey("trigger")))
        \o << <<"region:earth">> >>

\* Math.floor(payload.timestamp / 1000), NaN for a payload with no timestamp
PointTime(payload) ==
    IF "timestamp" \in DOMAIN payload THEN Num(payload.timestamp \div 1000) ELSE NaN

\* transformMetric of datadog.ts: the default case of the switch throws
TransformMetric(payload) ==
    CASE payload.type = "GAUGE" ->
            [threw |-> FALSE,
             metric |-> [metric |-> payload.name, type |-> "gauge",
                         points |-> <<[time |-> PointTime(payload),
                                       value |-> payload.value]>>,
                         tags |-> FormatTags(payload.tags)]]
      [] payload.type \in {"DISTRIBUTION", "HISTOGRAM", "COUNT"} ->
            [threw |-> FALSE,
             metric |-> [metric |-> payload.name, type |-> "distribution",
                         points |-> <<[time |-> PointTime(payload),
                                       value |-> <<payload.value>>]>>,
                         tags |-> FormatTags(payload.tags)]]
      [] OTHER -> [threw |-> TRUE]

\* sendToDatadog: the distribution points are posted and awaited, the
\* series of the gauges is posted and not awaited
SendToDatadog(datadogMetrics, apiKey, responseOk) ==
    LET distributionMetrics ==
            SelectSeq(datadogMetrics, LAMBDA m : m.type = "distribution")
        gaugeMetrics == SelectSeq(datadogMetrics, LAMBDA m : m.type = "gauge")
        distributionPost ==
            IF Len(distributionMetrics) > 0
            THEN <<[endpoint |-> "api/v1/distribution_points",
                    series |-> distributionMetrics]>>
            ELSE <<>>
        seriesPost ==
            IF Len(gaugeMetrics) > 0
            THEN <<[endpoint |-> "api/v1/series", series |-> gaugeMetrics]>>
            ELSE <<>>
    IN  IF ~apiKey THEN [requests |-> <<>>, outcome |-> "fulfilled"]
        ELSE IF Len(distributionMetrics) > 0 /\ ~responseOk
        THEN [requests |-> distributionPost, outcome |-> "rejected"]
        ELSE [requests |-> distributionPost \o seriesPost, outcome |-> "fulfilled"]

\* DatadogMetricSink.sendMetrics
DatadogSendMetrics(payloads, apiKey, responseOk) ==
    IF Len(payloads) = 0 THEN [requests |-> <<>>, outcome |-> "fulfilled"]
    ELSE LET payloadsWithoutWorkerMetrics ==
                 SelectSeq(payloads, LAMBDA p : ~StartsWith(p.name, WorkerPrefix))
             transformed == [i \in DOMAIN payloadsWithoutWorkerMetrics |->
                                TransformMetric(payloadsWithoutWorkerMetrics[i])]
         IN  IF \E i \in DOMAIN transformed : transformed[i].threw
             THEN [requests |-> <<>>, outcome |-> "rejected"]
             ELSE SendToDatadog([i \in DOMAIN transformed |-> transformed[i].metric],
                                apiKey, responseOk)

\* the payloads handed to the sinks: what toMetricPayloads gives for a
\* COUNT, a GAUGE and a HISTOGRAM, a standard metric, and a payload of a
\* kind that no encoder knows
SinkPayloads ==
    {[type |-> "COUNT", name |-> <<"c">>, value |-> 5, tags |-> TagsA,
      timestamp |-> 2000],
     [type |-> "GAUGE", name |-> <<"g">>, value |-> 3, tags |-> TagsA,
      timestamp |-> 2000],
     [type |-> "HISTOGRAM", name |-> <<"h">>,
      value |-> <<[value |-> 5, time |-> 2000]>>, tags |-> TagsA],
     [type |-> "COUNT", name |-> WorkerPrefix \o <<"r", "e", "q">>, value |-> 1,
      tags |-> <<[key |-> TagKey("scriptName"), value |-> Str(<<"t">>)]>>,
      timestamp |-> 1000],
     [type |-> "SUMMARY", name |-> <<"s">>, value |-> 1, tags |-> <<>>,
      timestamp |-> 1000]}

SendCalls ==
    {[sink |-> s, payloads |-> ps, apiKey |-> k, responseOk |-> ok] :
        s \in {"otel", "datadog"}, ps \in SeqsUpTo(SinkPayloads, MaxPayloads),
        k \in BOOLEAN, ok \in BOOLEAN}

InitSend ==
    /\ InitOf({0})
    /\ InitUntimed
    /\ InitMetricsDb
    /\ args \in SendCalls
    /\ result = <<>>

\* sendMetrics is called and its promise settles
SendMetrics ==
    /\ result = <<>>
    /\ result' = <<IF args.sink = "otel"
                   THEN OtelSendMetrics(args.payloads, args.responseOk)
                   ELSE DatadogSendMetrics(args.payloads, args.apiKey,
                                           args.responseOk)>>
    /\ UNCHANGED <<logvars, timevars, dbvars, args>>

SpecSend == InitSend /\ [][SendMetrics]_vars

\* ---- DatadogMetricSink, the definition with per-sample histogram points ----
\* datadog.ts holds a second DatadogMetricSink (from line 226), in which a
\* HISTOGRAM payload becomes one distribution point per sample.  A call is
\* the payloads, whether the API key is there, and whether the response of
\* each endpoint is ok.

\* String.prototype.toLowerCase on the string of a metric kind
ToLowerCase(type) ==
    CASE type = "COUNT" -> "count"
      [] type = "GAUGE" -> "gauge"
      [] type = "HISTOGRAM" -> "histogram"
      [] type = "DISTRIBUTION" -> "distribution"
      [] type = "SUMMARY" -> "summary"

\* transformMetric of the second definition: type "distribution" and one
\* point per sample for a HISTOGRAM, metricType.toLowerCase() and one point
\* for the rest
TransformMetricPerSample(payload) ==
    IF payload.type = "HISTOGRAM"
    THEN [metric |-> payload.name, type |-> "distribution",
          points |-> [i \in DOMAIN payload.value |->
                         [time |-> Num(payload.value[i].time \div 1000),
                          value |-> <<payload.value[i].value>>]],
          tags |-> FormatTags(payload.tags)]
    ELSE [metric |-> payload.name, type |-> ToLowerCase(payload.type),
          points |-> <<[time |-> PointTime(payload), value |-> payload.value]>>,
          tags |-> FormatTags(payload.tags)]

\* sendToDatadog of the second definition: the metrics of type "histogram"
\* go to the distribution points endpoint, the others to the series
\* endpoint; both requests are made before Promise.all is awaited.
\* sendDistributionMetrics awaits its postRequest; sendMetricsSeries calls
\* this.postRequest(...) without await or return, so its promise is
\* fulfilled whatever becomes of the request
SendToDatadogPerSample(datadogMetrics, apiKey, distributionOk, seriesOk) ==
    LET distributionMetrics ==
            SelectSeq(datadogMetrics, LAMBDA m : m.type = "histogram")
        otherMetrics == SelectSeq(datadogMetrics, LAMBDA m : m.type # "histogram")
        distributionPost ==
            IF Len(distributionMetrics) > 0
            THEN <<[endpoint |-> "api/v1/distribution_points",
                    series |-> distributionMetrics, ok |-> distributionOk]>>
            ELSE <<>>
        seriesPost ==
            IF Len(otherMetrics) > 0
            THEN <<[endpoint |-> "api/v1/series", series |-> otherMetrics,
                    ok |-> seriesOk]>>
            ELSE <<>>
        settled ==
            (IF Len(distributionMetrics) > 0
             THEN {IF distributionOk THEN "fulfilled" ELSE "rejected"} ELSE {})
            \cup (IF Len(otherMetrics) > 0 THEN {"fulfilled"} ELSE {})
    IN  IF ~apiKey THEN [requests |-> <<>>, outcome |-> "fulfilled"]
        ELSE [requests |-> distributionPost \o seriesPost,
              outcome |-> IF "rejected" \in settled THEN "rejected" ELSE "fulfilled"]

\* DatadogMetricSink.sendMetrics of the second definition
DatadogSendMetricsPerSample(payloads, apiKey, distributionOk, seriesOk) ==
    IF Len(payloads) = 0 THEN [requests |-> <<>>, outcome |-> "fulfilled"]
    ELSE LET payloadsWithoutWorkerMetrics ==
                 SelectSeq(payloads, LAMBDA p : ~StartsWith(p.name, WorkerPrefix))
         IN  SendToDatadogPerSample(
                 [i \in DOMAIN payloadsWithoutWorkerMetrics |->
                     TransformMetricPerSample(payloadsWithoutWorkerMetrics[i])],
                 apiKey, distributionOk, seriesOk)

\* the calls: the payloads of the other sinks and a histogram of two samples
PerSampleCalls ==
    LET TwoSamples ==
            [type |-> "HISTOGRAM", name |-> <<"k">>,
             value |-> <<[value |-> 5, time |-> 2000], [value |-> 3, time |-> 1000]>>,
             tags |-> TagsA]
    IN  {[payloads |-> ps, apiKey |-> k, distributionOk |-> d, seriesOk |-> s] :
            ps \in SeqsUpTo(SinkPayloads \cup {TwoSamples}, MaxPayloads),
            k \in BOOLEAN, d \in BOOLEAN, s \in BOOLEAN}

InitSendPerSample ==
    /\ InitOf({0})
    /\ InitUntimed
    /\ InitMetricsDb
    /\ args \in PerSampleCalls
    /\ result = <<>>

\* sendMetrics is called, its requests are answered and its promise settles
SendMetricsPerSample ==
    /\ result = <<>>
    /\ result' = <<DatadogSendMetricsPerSample(args.payloads, args.apiKey,
                                               args.distributionOk, args.seriesOk)>>
    /\ UNCHANGED <<logvars, timevars, dbvars, args>>

SpecSendPerSample == InitSendPerSample /\ [][SendMetricsPerSample]_vars

\* ---- OtelMetricSink.timestampToNanos (otel.ts) ----
\* A call is the timestamp in whole milliseconds, the option
\* enableNanoSecondTimestampJitter, and the draw of Math.random, given as
\* Math.floor(Math.random() * 1000000).  Math.random returns a double in
\* [0, 1): 0 gives 0, the greatest double below 1 gives 999999.

\* String(n) of a BigInt
BigIntToString(n) == IF n < 0 THEN <<"-">> \o NumberToString(-n) ELSE NumberToString(n)

\* timestampToNanos of the OtelMetricSink, for a whole number of milliseconds
OtelTimestampToNanos(timestampMs, enableNanoSecondTimestampJitter, randomMillionths) ==
    LET baseNanos == timestampMs * 1000000
        jitterNanos == randomMillionths - 500000
    IN  IF enableNanoSecondTimestampJitter
        THEN BigIntToString(baseNanos + jitterNanos)
        ELSE BigIntToString(baseNanos)

NanosCalls ==
    {[timestampMs |-> t, jitter |-> j, randomMillionths |-> r] :
        t \in {0, 1, 2, 999, 1000, 1500, 2000},
        j \in BOOLEAN,
        r \in {0, 1, 499999, 500000, 500001, 999998, 999999}}

InitNanos ==
    /\ InitOf({0})
    /\ InitUntimed
    /\ InitMetricsDb
    /\ args \in NanosCalls
    /\ result = <<>>

\* timestampToNanos is called and returns
TimestampToNanosCall ==
    /\ result = <<>>
    /\ result' = <<OtelTimestampToNanos(args.timestampMs, args.jitter,
                                        args.randomMillionths)>>
    /\ UNCHANGED <<logvars, timevars, dbvars, args>>

SpecNanos == InitNanos /\ [][TimestampToNanosCall]_vars

\* ---- definitions shared by the MetricsDb properties ----
\* the position of the last clearAll among the calls, 0 for none
LastClear ==
    IF \E i \in DOMAIN dbCalls : dbCalls[i].type = "clearAll"
    THEN CHOOSE i \in DOMAIN dbCalls :
            /\ dbCalls[i].type = "clearAll"
            /\ \A j \in DOMAIN dbCalls : dbCalls[j].type = "clearAll" => j <= i
    ELSE 0

\* the emissions stored since the last clearAll, in arrival order
Emitted ==
    SelectSeq(SubSeq(dbCalls, LastClear + 1, Len(dbCalls)),
              LAMBDA c : c.type # "snapshot")

\* a tag mapping as a mapping: its entries without their order
TagMapping(tags) == {tags[i] : i \in DOMAIN tags}

\* the identity of an emission or of a stored metric: name, kind and tag mapping
Identity(m) == <<m.name, m.type, TagMapping(m.tags)>>

StoredKinds == {"COUNT", "GAUGE", "HISTOGRAM"}

\* the emissions since the last clearAll that have the identity of e
EmissionsOf(e) == SelectSeq(Emitted, LAMBDA x : Identity(x) = Identity(e))

\* the stored metric of the identity of e: the one found under its key
StoredOf(e) == metrics[MapGet(metrics, GetMetricKey(e))].metric

RECURSIVE Sum(_)
Sum(seq) == IF seq = <<>> THEN 0 ELSE seq[1].value + Sum(Tail(seq))

\* ---- definitions shared by the properties ----
RECURSIVE Concat(_, _)
\* the snapshots of the first n flushes, one after the other
Concat(fs, n) == IF n = 0 THEN <<>> ELSE Concat(fs, n - 1) \o fs[n].handed

Submitted == [i \in 1..appended |-> i]
Batch(k) == [i \in 1..k |-> appended + i]
WaitingTimers == {t \in DOMAIN tasks : tasks[t].state = "waiting"}
LiveTimers == {t \in WaitingTimers : tasks[t].localFlushId = flushId}
SizeTasks == {t \in DOMAIN tasks : tasks[t].kind = "size"}
NoFlushEffect == UNCHANGED <<arrays, dbItems, flushId, flushScheduled, flushes, console>>

\* C1: the snapshots of the flushes, in order, followed by the buffer are the
\* submitted items in submission order, each exactly once (so a snapshot holds
\* exactly what was appended since the previous flush, and no item is in two
\* snapshots), and the array every sink of a flush was given still holds
\* exactly what it held when the flush was decided.
C1_SnapshotsPartition ==
    /\ Concat(flushes, Len(flushes)) \o Buffer = Submitted
    /\ \A f \in DOMAIN flushes :
          /\ arrays[flushes[f].items] = flushes[f].handed
          /\ flushes[f].items # dbItems
          /\ \A s \in Sinks : flushes[f].sinks[s].arg = flushes[f].items

\* C1 witness: two flushes were dispatched, the first is still with its sinks,
\* and an item was appended after the second was decided.
C1_Witness ==
    /\ Len(flushes) >= 2
    /\ ~flushes[1].done
    /\ Len(Buffer) >= 1

\* C2: a timer wake executes a flush exactly when its captured flush id is
\* the current one; a wake with another id changes neither the buffer, the
\* flush id nor flushScheduled and calls no sink.
C2_WakeFlushesIffCurrent ==
    [][\A t \in DOMAIN tasks :
          TimerWake(t) =>
             IF tasks[t].localFlushId = flushId
             THEN /\ Len(flushes') = Len(flushes) + 1
                  /\ flushes'[Len(flushes')].handed = Buffer
                  /\ flushes'[Len(flushes')].task = t
                  /\ arrays'[dbItems'] = <<>>
                  /\ ~flushScheduled'
                  /\ flushId' = flushId
             ELSE /\ NoFlushEffect
                  /\ tasks'[t].state = "fulfilled"]_vars

\* C2 witness: one timer woke with a stale id and did nothing, another woke
\* with the current id and flushed.
C2_Witness ==
    /\ \E t \in DOMAIN tasks :
          /\ tasks[t].kind = "timer" /\ tasks[t].wait = "resolved"
          /\ tasks[t].flush = 0
    /\ \E t \in DOMAIN tasks :
          /\ tasks[t].kind = "timer" /\ tasks[t].wait = "resolved"
          /\ tasks[t].flush # 0

\* C3: a processTraceItems call that leaves the buffer at or above
\* maxBufferSize starts the flush in that call (snapshot, empty buffer, every
\* sink invoked, promise handed to ctx.waitUntil), advances the flush id by
\* one, and every timer armed before it is stale from then on: its wake has
\* no effect.
C3_SizeFlushInCall ==
    /\ [][\A k \in 0..MaxBatch :
            (ProcessTraceItems(k) /\ Len(Buffer) + k >= maxBufferSize) =>
               /\ Len(flushes') = Len(flushes) + 1
               /\ flushes'[Len(flushes')].handed = Buffer \o Batch(k)
               /\ \A s \in Sinks : flushes'[Len(flushes')].sinks[s].status = "pending"
               /\ arrays'[dbItems'] = <<>>
               /\ Len(tasks') = Len(tasks) + 1
               /\ tasks'[Len(tasks')].kind = "size"
               /\ tasks'[Len(tasks')].flush = Len(flushes')
               /\ flushId' = flushId + 1
               /\ ~flushScheduled'
               /\ \A t \in WaitingTimers :
                     /\ tasks'[t] = tasks[t]
                     /\ tasks'[t].localFlushId # flushId']_vars
    /\ [][\A t \in DOMAIN tasks :
            (TimerWake(t) /\ \E j \in SizeTasks : j > t) => NoFlushEffect]_vars

\* C3 witness: a size-triggered flush was started after a timer had been
\* armed, and that timer has since woken without flushing.
C3_Witness ==
    \E t \in DOMAIN tasks, j \in SizeTasks :
        /\ t < j
        /\ tasks[t].kind = "timer" /\ tasks[t].wait = "resolved"
        /\ tasks[t].flush = 0
        /\ tasks[j].flush # 0

\* C4: while an armed timer has not fired, a batch that stays below the
\* threshold is only appended: it arms no timer and leaves the flush id and
\* flushScheduled as they are, so one timer serves all the batches.
C4_DebounceCoalesces ==
    [][\A k \in 0..MaxBatch :
          (/\ ProcessTraceItems(k)
           /\ LiveTimers # {}
           /\ Len(Buffer) + k < maxBufferSize) =>
             /\ UNCHANGED <<tasks, flushId, flushScheduled, flushes, dbItems>>
             /\ arrays'[dbItems] = Buffer \o Batch(k)]_vars

\* C4 witness: more items than one batch can carry are buffered behind the
\* only timer ever armed, which is still pending.
C4_Witness ==
    /\ Len(tasks) = 1
    /\ LiveTimers = {1}
    /\ flushId = 1
    /\ Len(Buffer) > MaxBatch

\* C5: at most one pending timer holds the current flush id.
C5_AtMostOneLiveTimer == Cardinality(LiveTimers) <= 1

\* C5 witness: two timers are pending and exactly one of them is live.
C5_Witness ==
    /\ Cardinality(WaitingTimers) = 2
    /\ Cardinality(LiveTimers) = 1

C7_OneFlushInFlight ==
    \A s \in Sinks :
        Cardinality({f \in DOMAIN flushes : flushes[f].sinks[s].status = "pending"}) <= 1

\* C8: in every dispatched flush each sink was invoked with the complete
\* snapshot; a fulfilled send stays fulfilled whatever the other sinks do;
\* and when the last sink settles the report counts every sink, each
\* fulfilled one as a success and each rejected one as a failure, and the
\* promise of the flush is fulfilled.
C8_PartialSinkFailure ==
    /\ [](\A f \in InFlight : \A s \in Sinks :
            /\ flushes[f].sinks[s].status \in {"pending", "fulfilled", "rejected"}
            /\ arrays[flushes[f].sinks[s].arg] = flushes[f].handed)
    /\ [][\A f \in InFlight : \A s \in Sinks :
            flushes[f].sinks[s].status = "fulfilled" =>
               flushes'[f].sinks[s].status \in {"fulfilled", "settled"}]_vars
    /\ [][\A f \in InFlight :
            flushes'[f].done =>
               /\ console'.ok >=
                     Cardinality({x \in Sinks : flushes[f].sinks[x].status = "fulfilled"})
               /\ console'.failed >=
                     Cardinality({x \in Sinks : flushes[f].sinks[x].status = "rejected"})
               /\ console'.ok + console'.failed = NumSinks
               /\ tasks'[flushes[f].task].state = "fulfilled"]_vars

\* C8 witness: a flush has completed in which one sink failed and another
\* succeeded, and its promise is fulfilled.
C8_Witness ==
    /\ console.ok >= 1
    /\ console.failed >= 1
    /\ \E f \in DOMAIN flushes :
          flushes[f].done /\ tasks[flushes[f].task].state = "fulfilled"

\* C9: no promise handed to ctx.waitUntil is ever rejected: one whose timer
\* wait was rejected is fulfilled, and one whose flush has completed is
\* fulfilled whatever the outcomes of the sinks.
C9_NoRejectedPromise ==
    \A t \in DOMAIN tasks :
        /\ tasks[t].state \in {"waiting", "flushing", "fulfilled"}
        /\ tasks[t].wait = "rejected" => tasks[t].state = "fulfilled"
        /\ (tasks[t].flush # 0 /\ flushes[tasks[t].flush].done) =>
              tasks[t].state = "fulfilled"

\* C9 witness: a timer wait was rejected and a later flush completed with
\* every sink failing.
C9_Witness ==
    /\ \E t \in DOMAIN tasks : tasks[t].wait = "rejected"
    /\ console.failed = NumSinks
    /\ \E f \in DOMAIN flushes : flushes[f].done

\* C10 as stated: once the wait of the armed timer has been rejected (and no
\* flush has happened since), the next processTraceItems call that leaves a
\* non-empty buffer below the threshold arms a new timer.
C10_RearmAfterRejectedWait ==
    [][\A k \in 0..MaxBatch :
          (/\ ProcessTraceItems(k)
           /\ \E t \in DOMAIN tasks :
                 tasks[t].wait = "rejected" /\ tasks[t].localFlushId = flushId
           /\ Len(Buffer) + k > 0
           /\ Len(Buffer) + k < maxBufferSize) =>
             /\ Len(tasks') = Len(tasks) + 1
             /\ tasks'[Len(tasks')].state = "waiting"]_vars

RECURSIVE SentTo(_, _)
\* what sink s has been sent by the first n flushes, one send after the other
SentTo(s, n) ==
    IF n = 0 THEN <<>> ELSE SentTo(s, n - 1) \o arrays[flushes[n].sinks[s].arg]

Range(seq) == {seq[i] : i \in DOMAIN seq}

\* C11: every submitted item is in the array of at most one send of each
\* sink, no item of a dispatched flush is in the buffer whatever became of the
\* sends of that flush, and a send that is rejected starts no other send and
\* puts nothing back in the buffer.
C11_AtMostOnceNoRetry ==
    /\ [](\A s \in Sinks : \A i \in 1..appended :
            Cardinality({f \in DOMAIN flushes :
                            i \in Range(arrays[flushes[f].sinks[s].arg])}) <= 1)
    /\ [](\A f \in DOMAIN flushes : \A s \in Sinks :
            Range(arrays[flushes[f].sinks[s].arg]) \cap Range(Buffer) = {})
    /\ [][\A f \in InFlight : \A s \in Sinks :
            (flushes[f].sinks[s].status = "pending"
               /\ flushes'[f].sinks[s].status \in {"rejected", "settled"}) =>
                  /\ Len(flushes') = Len(flushes)
                  /\ UNCHANGED <<arrays, dbItems>>]_vars

\* C11 witness: the first flush completed with every send rejected, and a
\* later flush has been dispatched since.
C11_Witness ==
    /\ Len(flushes) >= 2
    /\ flushes[1].done
    /\ ~flushes[2].done
    /\ console.failed = NumSinks

\* C13: what each sink has been sent, flush after flush, is an initial part
\* of the submitted items in submission order (batch by batch, and in the
\* order of the batch), every sink of a flush is sent the same array, and
\* that array holds the items as they were buffered.
C13_ArrivalOrder ==
    /\ \A s \in Sinks :
          /\ Len(SentTo(s, Len(flushes))) <= appended
          /\ SentTo(s, Len(flushes)) = SubSeq(Submitted, 1, Len(SentTo(s, Len(flushes))))
    /\ \A f \in DOMAIN flushes : \A s, x \in Sinks :
          flushes[f].sinks[s].arg = flushes[f].sinks[x].arg

\* C13 witness: a flush of several items was followed by a second flush, both
\* still with their sinks.
C13_Witness ==
    /\ Len(flushes) >= 2
    /\ Len(flushes[1].handed) >= 2
    /\ InFlight = {1, 2}

\* C12: no sink is ever sent an empty array; a processTraceItems call with an
\* empty batch on an empty buffer dispatches nothing and arms no timer; and a
\* flush that finds the buffer empty (a timer wake or a size-triggered flush)
\* dispatches nothing and its promise is fulfilled.
C12_NoEmptySend ==
    /\ [](\A f \in DOMAIN flushes : \A s \in Sinks :
            /\ Len(flushes[f].handed) > 0
            /\ flushes[f].sinks[s].arg = flushes[f].items)
    /\ [][(ProcessTraceItems(0) /\ Len(Buffer) = 0) =>
            /\ flushes' = flushes
            /\ ~flushScheduled'
            /\ \A t \in DOMAIN tasks' : t \notin DOMAIN tasks =>
                   /\ tasks'[t].kind = "size"
                   /\ tasks'[t].state = "fulfilled"
                   /\ tasks'[t].flush = 0]_vars
    /\ [][\A t \in DOMAIN tasks :
            (TimerWake(t) /\ Len(Buffer) = 0) => flushes' = flushes]_vars

\* C12 witness: a size-triggered flush met an empty buffer and returned
\* without a dispatch, after an earlier flush had dispatched its items.
C12_Witness ==
    /\ Len(flushes) >= 1
    /\ \E t \in SizeTasks :
          /\ tasks[t].flush = 0
          /\ tasks[t].state = "fulfilled"
          /\ \E j \in SizeTasks : j < t /\ tasks[j].flush # 0

\* C14: the timer duration is the configured maxBufferDuration (5 seconds
\* when none is given) cut to 30 seconds, so never above 30; a pending timer
\* has at most that long left; with every timer waking on time, no buffered
\* item is older than that duration (so each is snapshotted at the latest that
\* long after the call that appended it); and a batch arriving while the
\* armed timer is pending leaves the time that timer has left as it is.
C14_BoundedStaleness ==
    /\ [](maxBufferDuration <= 30)
    /\ [](durationOption = 0 => maxBufferDuration = 5)
    /\ [](durationOption \in 1..30 => maxBufferDuration = durationOption)
    /\ [](durationOption > 30 => maxBufferDuration = 30)
    /\ [](\A t \in WaitingTimers : remaining[t] <= maxBufferDuration * 1000)
    /\ [](\A i \in DOMAIN ages : ages[i] <= maxBufferDuration * 1000)
    /\ [](Len(ages) = Len(Buffer))
    /\ [][\A k \in 0..MaxBatch :
            (TimedProcessTraceItems(k) /\ LiveTimers # {}) =>
               \A t \in WaitingTimers :
                  /\ t \in DOMAIN remaining'
                  /\ remaining'[t] = remaining[t]
                  /\ tasks'[t] = tasks[t]]_vars

\* C14 witness: with a configured duration above the ceiling, an item has
\* been buffered for the whole 30 seconds, a later batch has joined it, and
\* the timer armed for the first is now due.
C14_Witness ==
    /\ durationOption > 30
    /\ Len(ages) >= 2
    /\ ages[1] = 30000
    /\ ages[Len(ages)] < ages[1]
    /\ \E t \in LiveTimers : remaining[t] = 0

\* C15: storing an emission whose name, kind and tag mapping (in whatever
\* insertion order) are those of a stored metric leaves getMetricCount as it
\* is and changes that entry only; no two stored metrics have the same
\* identity; and every identity stored since the last clearAll has exactly
\* one stored metric.
C15_IdentityInvariance ==
    /\ [][\A e \in Emissions :
            (/\ dbCalls' = Append(dbCalls, e)
             /\ \E i \in DOMAIN metrics : Identity(metrics[i].metric) = Identity(e)) =>
               /\ GetMetricCount(metrics') = GetMetricCount(metrics)
               /\ \A i \in DOMAIN metrics :
                     Identity(metrics[i].metric) # Identity(e) =>
                        metrics'[i] = metrics[i]]_vars
    /\ [](\A i, j \in DOMAIN metrics :
            i # j => Identity(metrics[i].metric) # Identity(metrics[j].metric))
    /\ [](\A n \in DOMAIN Emitted :
            Emitted[n].type \in StoredKinds =>
               Cardinality({i \in DOMAIN metrics :
                               metrics[i].key = GetMetricKey(Emitted[n])}) = 1)

\* C15 witness: two emissions of one COUNT, their tags inserted in opposite
\* orders, are in one stored metric (5 and 3 make 8), beside a stored metric
\* of another identity.
C15_Witness ==
    /\ Len(Emitted) = 3
    /\ Emitted[1].tags = TagsAB /\ Emitted[3].tags = TagsBA
    /\ Emitted[1].type = "COUNT" /\ Emitted[3].type = "COUNT"
    /\ GetMetricCount(metrics) = 2
    /\ metrics[1].metric.value = 8

\* C16 as stated: emissions stored under one key are identity-equivalent
\* (same name, same kind, tag mappings of the same keys with the same
\* values), i.e. emissions that differ in name, in a tag key or in a tag
\* value are stored in different entries.
C16_KeyInjective ==
    \A x, y \in DOMAIN Emitted :
        (/\ Emitted[x].type \in StoredKinds
         /\ Emitted[y].type \in StoredKinds
         /\ MapGet(metrics, GetMetricKey(Emitted[x]))
               = MapGet(metrics, GetMetricKey(Emitted[y]))) =>
            Identity(Emitted[x]) = Identity(Emitted[y])

\* C17: emissions of one name and one tag mapping but of different kinds
\* (COUNT, GAUGE, HISTOGRAM) are stored in different entries, and storing an
\* emission leaves every stored metric of that name and tag mapping of
\* another kind as it is.
C17_GroupingByKind ==
    /\ [](\A x, y \in DOMAIN Emitted :
            (/\ Emitted[x].type \in StoredKinds
             /\ Emitted[y].type \in StoredKinds
             /\ Emitted[x].type # Emitted[y].type
             /\ Emitted[x].name = Emitted[y].name
             /\ TagMapping(Emitted[x].tags) = TagMapping(Emitted[y].tags)) =>
                /\ MapGet(metrics, GetMetricKey(Emitted[x]))
                      # MapGet(metrics, GetMetricKey(Emitted[y]))
                /\ StoredOf(Emitted[x]).type = Emitted[x].type
                /\ StoredOf(Emitted[y]).type = Emitted[y].type)
    /\ [][\A e \in Emissions :
            dbCalls' = Append(dbCalls, e) =>
               \A i \in DOMAIN metrics :
                  (/\ metrics[i].metric.name = e.name
                   /\ TagMapping(metrics[i].metric.tags) = TagMapping(e.tags)
                   /\ metrics[i].metric.type # e.type) =>
                      metrics'[i] = metrics[i]]_vars

\* C17 witness: a COUNT, a GAUGE and again a COUNT of one name and one tag
\* mapping are in two stored metrics, the COUNT holding 5 + 3 and the GAUGE
\* its own value.
C17_Witness ==
    /\ Len(Emitted) = 3
    /\ Emitted[1].type = "COUNT" /\ Emitted[2].type = "GAUGE"
    /\ Emitted[3].type = "COUNT"
    /\ \A n \in 1..3 : Emitted[n].tags = TagsAB /\ Emitted[n].name = <<"m">>
    /\ Emitted[1].value = 5 /\ Emitted[2].value = 5 /\ Emitted[3].value = 3
    /\ GetMetricCount(metrics) = 2
    /\ metrics[1].metric.value = 8
    /\ metrics[2].metric.value = 5

\* the emissions since the last clearAll stored under the key of e
EmissionsUnderKeyOf(e) ==
    SelectSeq(Emitted, LAMBDA x : x.type \in StoredKinds
                                  /\ GetMetricKey(x) = GetMetricKey(e))

EmittedOfKind(kind) == {n \in DOMAIN Emitted : Emitted[n].type = kind}

SamplesOf(seq) == [i \in DOMAIN seq |-> [value |-> seq[i].value, time |-> seq[i].timestamp]]

\* C18 as stated: the stored value of every COUNT identity is the sum of the
\* values of the emissions of that identity since the last clearAll.
C18_CountIsSumOfIdentity ==
    \A n \in EmittedOfKind("COUNT") :
        StoredOf(Emitted[n]).value = Sum(EmissionsOf(Emitted[n]))

\* what storeMetric does keep for a COUNT: the sum over the emissions stored
\* under the key, and the timestamp of the last of them
CountIsSumUnderKey ==
    \A n \in EmittedOfKind("COUNT") :
        LET under == EmissionsUnderKeyOf(Emitted[n])
        IN  /\ StoredOf(Emitted[n]).value = Sum(under)
            /\ StoredOf(Emitted[n]).lastUpdated = under[Len(under)].timestamp

\* C19 as stated: the stored value and lastUpdated of every GAUGE identity
\* are those of the emission of that identity stored last, whatever the
\* timestamps.
C19_GaugeIsLastOfIdentity ==
    \A n \in EmittedOfKind("GAUGE") :
        LET mine == EmissionsOf(Emitted[n])
        IN  /\ StoredOf(Emitted[n]).value = mine[Len(mine)].value
            /\ StoredOf(Emitted[n]).lastUpdated = mine[Len(mine)].timestamp

\* what storeMetric does keep for a GAUGE: the emission stored last under
\* the key
GaugeIsLastUnderKey ==
    \A n \in EmittedOfKind("GAUGE") :
        LET under == EmissionsUnderKeyOf(Emitted[n])
        IN  /\ StoredOf(Emitted[n]).value = under[Len(under)].value
            /\ StoredOf(Emitted[n]).lastUpdated = under[Len(under)].timestamp

\* C20 as stated: the stored value of every HISTOGRAM identity is the
\* sequence of the (value, time) samples of the emissions of that identity
\* since the last clearAll, one per emission, in arrival order.
C20_HistogramIsSamplesOfIdentity ==
    \A n \in EmittedOfKind("HISTOGRAM") :
        StoredOf(Emitted[n]).value = SamplesOf(EmissionsOf(Emitted[n]))

\* what storeMetric does keep for a HISTOGRAM: one sample per emission stored
\* under the key, in arrival order
HistogramIsSamplesUnderKey ==
    \A n \in EmittedOfKind("HISTOGRAM") :
        StoredOf(Emitted[n]).value = SamplesOf(EmissionsUnderKeyOf(Emitted[n]))

\* C21: toMetricPayloads returns one payload per stored metric, in the order
\* of the store: for a COUNT or a GAUGE the fields type, name, value, tags and
\* timestamp, the timestamp being lastUpdated; for a HISTOGRAM the fields
\* type, name, value and tags only, the value being the whole list of
\* samples; name, kind and tags are those of the stored metric.
C21_OnePayloadPerMetric ==
    \A k \in DOMAIN exported :
        LET all == exported[k].all
            payloads == exported[k].payloads
        IN  /\ Len(payloads) = Len(all)
            /\ \A i \in DOMAIN all :
                  /\ payloads[i].type = all[i].type
                  /\ payloads[i].name = all[i].name
                  /\ payloads[i].tags = all[i].tags
                  /\ payloads[i].value = all[i].value
                  /\ all[i].type \in {"COUNT", "GAUGE"} =>
                        /\ DOMAIN payloads[i] = {"type", "name", "value", "tags", "timestamp"}
                        /\ payloads[i].timestamp = all[i].lastUpdated
                  /\ all[i].type = "HISTOGRAM" =>
                        DOMAIN payloads[i] = {"type", "name", "value", "tags"}

\* C21 witness: a snapshot of a COUNT, a GAUGE and a HISTOGRAM of two samples.
C21_Witness ==
    \E k \in DOMAIN exported :
        /\ Len(exported[k].payloads) = 3
        /\ \E i \in 1..3 :
              /\ exported[k].payloads[i].type = "HISTOGRAM"
              /\ Len(exported[k].payloads[i].value) = 2

\* the position of the last clearAll before position p of the calls, 0 for none
ClearBefore(p) ==
    LET cs == {i \in 1..(p - 1) : dbCalls[i].type = "clearAll"}
    IN  IF cs = {} THEN 0 ELSE CHOOSE i \in cs : \A j \in cs : j <= i

\* the emissions stored after position c and before position p
StoredBetween(c, p) ==
    SelectSeq(SubSeq(dbCalls, c + 1, p - 1), LAMBDA x : x.type \in StoredKinds)

RECURSIVE Replay(_)
\* an empty store after storeMetric of each emission of the list, in order
Replay(es) ==
    IF es = <<>> THEN <<>>
    ELSE StoreMetric(Replay(SubSeq(es, 1, Len(es) - 1)), es[Len(es)])

\* C22: clearAll leaves the store empty; what a snapshot returned is never
\* changed by a later call; and every snapshot shows the emissions stored
\* since the last clearAll before it, all of them and nothing else: an
\* emission stored after a snapshot and its clearAll is in the next snapshot
\* and in no other.
C22_FlushAtomicity ==
    /\ [][dbCalls' = Append(dbCalls, [type |-> "clearAll"]) =>
            /\ GetMetricCount(metrics') = 0
            /\ GetAllMetrics(metrics') = <<>>
            /\ ToMetricPayloads(metrics') = <<>>]_vars
    /\ [][\A k \in DOMAIN exported :
            k \in DOMAIN exported' /\ exported'[k] = exported[k]]_vars
    /\ [](\A k \in DOMAIN exported :
            LET p == exported[k].at
                es == StoredBetween(ClearBefore(p), p)
                all == exported[k].all
            IN  /\ all = GetAllMetrics(Replay(es))
                /\ exported[k].payloads = ToMetricPayloads(Replay(es))
                /\ \A n \in DOMAIN es : \E i \in DOMAIN all :
                       GetMetricKey(all[i]) = GetMetricKey(es[n])
                /\ \A i \in DOMAIN all : \E n \in DOMAIN es :
                       GetMetricKey(all[i]) = GetMetricKey(es[n]))

\* C22 witness: a HISTOGRAM was stored, a snapshot taken, the store cleared,
\* another sample of the same HISTOGRAM stored and a second snapshot taken:
\* each snapshot holds one sample, its own.
C22_Witness ==
    /\ Len(exported) = 2
    /\ dbCalls[exported[1].at + 1].type = "clearAll"
    /\ exported[2].at = exported[1].at + 3
    /\ Len(exported[1].all) = 1 /\ Len(exported[2].all) = 1
    /\ exported[1].all[1].type = "HISTOGRAM"
    /\ exported[2].all[1].type = "HISTOGRAM"
    /\ Len(exported[1].all[1].value) = 1
    /\ Len(exported[2].all[1].value) = 1
    /\ exported[1].all[1].value # exported[2].all[1].value

\* ---- definitions shared by the MetricsTail properties ----
\* the positions of the processTraceItems calls
ProcessedAt == {p \in DOMAIN dbCalls : dbCalls[p].type = "traceItem"}

\* the metrics held by the store, and those handed to the sinks by a flush
\* at or after call p
HeldOrSentSince(p) ==
    Range(GetAllMetrics(metrics))
        \cup UNION {Range(exported[k].all) : k \in {j \in DOMAIN exported : exported[j].at >= p}}

\* the payloads handed to the sinks over the run
SentPayloads == UNION {Range(exported[k].payloads) : k \in DOMAIN exported}

\* a metrics-channel event with a kind that is not recognized or a value
\* that is not a finite number
Malformed(ev) ==
    /\ ev.channel = MetricsChannelName
    /\ \/ ev.message.type \notin {"COUNT", "GAUGE", "HISTOGRAM"}
       \/ ev.message.value.t # "number"

WellFormed(ev) == ev.channel = MetricsChannelName /\ ~Malformed(ev)

EventsOf(p) == Range(dbCalls[p].item.diagnosticsChannelEvents)

Keys(tags) == {tags[i].key : i \in DOMAIN tags}


\* what is in the store is waiting for a timer that will flush it
StoreAwaitsTimer ==
    GetMetricCount(metrics) > 0 =>
        \E t \in DOMAIN tasks :
            /\ tasks[t].kind = "timer" /\ tasks[t].state = "waiting"
            /\ tasks[t].localFlushId = flushId

\* C23: a metrics-channel event with an unrecognized kind or a non-finite
\* value leaves no metric of its name in the store or in anything sent
\* (unless a well-formed event carries the same name), the call that
\* carried it returns, and the four standard metrics of its trace item are
\* in the store, on their way to a flush, or in a flush sent since.
C23_MalformedEmissionIsolation ==
    /\ \A p \in ProcessedAt : \A ev \in EventsOf(p) :
           (/\ Malformed(ev)
            /\ \A q \in ProcessedAt : \A other \in EventsOf(q) :
                   WellFormed(other) => other.message.name # ev.message.name)
           => /\ \A m \in HeldOrSentSince(1) : m.name # ev.message.name
              /\ \A m \in SentPayloads : m.name # ev.message.name
    /\ \A p \in ProcessedAt : dbCalls[p].outcome = "returned"
    /\ \A p \in ProcessedAt :
           (\E ev \in EventsOf(p) : Malformed(ev)) =>
               LET item == dbCalls[p].item
               IN  Cardinality({m.name : m \in {x \in HeldOrSentSince(p) :
                       /\ StartsWith(x.name, WorkerPrefix)
                       /\ TagMapping(x.tags) = TagMapping(ContextualTags(item))}}) = 4
    /\ StoreAwaitsTimer

\* C23 witness: a trace item with a malformed event and a well-formed one
\* was processed and flushed: five metrics went to the sinks.
C23_Witness ==
    \E p \in ProcessedAt : \E k \in DOMAIN exported :
        /\ \E ev \in EventsOf(p) : Malformed(ev)
        /\ \E ev \in EventsOf(p) : WellFormed(ev)
        /\ exported[k].at = p
        /\ Len(exported[k].payloads) = 5

\* the metric that the accepted event ev of the trace item of call p was
\* merged into, where it is now: in the store or in a flush sent since
CarriersOf(p, ev) ==
    {m \in HeldOrSentSince(p) :
        /\ m.name = ev.message.name
        /\ m.type = ev.message.type
        /\ Keys(m.tags) = Keys(ev.message.tags) \cup Keys(ContextualTags(dbCalls[p].item))}

KindOf(fn) ==
    CASE fn = "count" -> "COUNT"
      [] fn = "gauge" -> "GAUGE"
      [] fn = "histogram" -> "HISTOGRAM"
      [] fn = "distribution" -> "DISTRIBUTION"

\* C25: count, gauge and histogram called as (name, value, tags) publish one
\* message, {type, name, value, tags} with the kind of the publisher, the
\* name and the value given and the third argument as tags, and nothing else.
C25_PublishesNameValueTags ==
    (/\ result # <<>>
     /\ args.fn \in {"count", "gauge", "histogram"}
     /\ Len(args.actuals) = 3)
    => /\ Len(result) = 1
       /\ DOMAIN result[1] = {"type", "name", "value", "tags"}
       /\ result[1].type = KindOf(args.fn)
       /\ result[1].name = args.actuals[1]
       /\ result[1].value = args.actuals[2]
       /\ result[1].tags = args.actuals[3]

\* ---- definitions shared by the encoder properties ----
RECURSIVE ParseDigits(_)
\* the number that a string of decimal digits writes
ParseDigits(digits) ==
    IF digits = <<>> THEN 0
    ELSE 10 * ParseDigits(SubSeq(digits, 1, Len(digits) - 1))
            + (CHOOSE d \in 0..9 : DigitChars[d + 1] = digits[Len(digits)])

RECURSIVE SumOfCounts(_)
SumOfCounts(bucketCounts) ==
    IF bucketCounts = <<>> THEN 0
    ELSE ParseDigits(Head(bucketCounts)) + SumOfCounts(Tail(bucketCounts))

Returned(fn) == result # <<>> /\ args.fn = fn

\* C26: buildExponentialBuckets of an empty group returns {offset: 0,
\* bucketCounts: []}, and the data point of an empty sample sequence is
\* built, with count 0 and neither bucket set in it.
C26_EmptyHistogramBucketing ==
    /\ (Returned("buildExponentialBuckets") /\ args.values = <<>>) =>
           /\ DOMAIN result[1] = {"offset", "bucketCounts"}
           /\ result[1].offset = 0
           /\ result[1].bucketCounts = <<>>
    /\ (Returned("buildExponentialHistogramDataPoint") /\ args.values = <<>>) =>
           /\ result[1].count = <<"0">>
           /\ result[1].zeroCount = <<"0">>
           /\ "positive" \notin DOMAIN result[1]
           /\ "negative" \notin DOMAIN result[1]

\* C26 witness: buildExponentialBuckets([]) has returned.
C26_Witness == Returned("buildExponentialBuckets") /\ args.values = <<>>

\* C27: for a non-empty group of strictly positive values the offset is the
\* least floor(log2(v)) of the group, bucketCounts has one entry for each
\* index from the least to the greatest, entry i counts the values of index
\* offset + i, the first and the last entry are not zero and the entries add
\* up to the size of the group.
C27_BucketsByFloorLog2 ==
    (/\ Returned("buildExponentialBuckets")
     /\ Len(args.values) > 0
     /\ \A i \in DOMAIN args.values : Positive(args.values[i]))
    => LET index == [i \in DOMAIN args.values |-> ExactFloorLog2(args.values[i])]
           least == CHOOSE b \in Range(index) : \A c \in Range(index) : b <= c
           greatest == CHOOSE b \in Range(index) : \A c \in Range(index) : c <= b
           counts == result[1].bucketCounts
       IN  /\ result[1].offset = least
           /\ Len(counts) = greatest - least + 1
           /\ \A j \in DOMAIN counts :
                  ParseDigits(counts[j]) =
                      Cardinality({i \in DOMAIN index : index[i] = least + j - 1})
           /\ ParseDigits(counts[1]) > 0
           /\ ParseDigits(counts[Len(counts)]) > 0
           /\ SumOfCounts(counts) = Len(args.values)

BucketSum(point, field) ==
    IF field \in DOMAIN point THEN SumOfCounts(point[field].bucketCounts) ELSE 0

\* C28: in the data point of any sample sequence, count is the number of
\* samples and equals zeroCount plus the positive plus the negative bucket
\* counts, zeroCount is the number of samples equal to zero, scale is 0, and
\* the positive (negative) bucket set is there exactly when some sample is
\* strictly positive (strictly negative).
C28_DataPointCounts ==
    Returned("buildExponentialHistogramDataPoint") =>
        LET point == result[1]
            samples == args.values
        IN  /\ ParseDigits(point.count) = Len(samples)
            /\ ParseDigits(point.count) =
                   ParseDigits(point.zeroCount) + BucketSum(point, "positive")
                       + BucketSum(point, "negative")
            /\ ParseDigits(point.zeroCount) =
                   Cardinality({i \in DOMAIN samples : samples[i].value.k = 0})
            /\ point.scale = 0
            /\ "positive" \in DOMAIN point <=>
                   \E i \in DOMAIN samples : samples[i].value.k > 0
            /\ "negative" \in DOMAIN point <=>
                   \E i \in DOMAIN samples : samples[i].value.k < 0

\* C28 witness: the data point of a zero, a strictly positive and a strictly
\* negative sample.
C28_Witness ==
    /\ Returned("buildExponentialHistogramDataPoint")
    /\ Len(args.values) = 3
    /\ \E i \in 1..3 : args.values[i].value.k = 0
    /\ \E i \in 1..3 : args.values[i].value.k > 0
    /\ \E i \in 1..3 : args.values[i].value.k < 0

\* C29: for a non-empty sample sequence startTimeUnixNano and timeUnixNano
\* write 1,000,000 times the time of the first and of the last sample in
\* arrival order.
C29_NanosOfFirstAndLast ==
    (Returned("buildExponentialHistogramDataPoint") /\ Len(args.values) > 0) =>
        /\ ParseDigits(result[1].startTimeUnixNano) = 1000000 * args.values[1].time
        /\ ParseDigits(result[1].timeUnixNano) =
               1000000 * args.values[Len(args.values)].time

\* C29 witness: the first sample to arrive is the greatest and the latest
\* in time, the last one the least and the earliest.
C29_Witness ==
    /\ Returned("buildExponentialHistogramDataPoint")
    /\ Len(args.values) = 3
    /\ args.values[1].time = 2000 /\ args.values[3].time = 1000
    /\ args.values[1].value.k = 12 /\ args.values[3].value.k = -4
    /\ args.values[2].value.k = 0

\* the kinds an encoder has a case for
SupportedKinds(sink) ==
    IF sink = "otel" THEN {"COUNT", "GAUGE"}
    ELSE {"GAUGE", "DISTRIBUTION", "HISTOGRAM", "COUNT"}

\* the names of the metrics that went out in the requests of the call
SentNames(sink, requests) ==
    UNION {{IF sink = "otel" THEN requests[r].series[i].metric.name
            ELSE requests[r].series[i].metric : i \in DOMAIN requests[r].series} :
               r \in DOMAIN requests}

\* C30: when a payload of a kind the encoder of the sink has no case for is
\* part of a send, and the responses are ok, the send is fulfilled and every
\* other payload the sink forwards is encoded and sent.
C30_EncoderFailureIsolated ==
    (/\ result # <<>>
     /\ args.responseOk /\ args.apiKey
     /\ \E i \in DOMAIN args.payloads :
            args.payloads[i].type \notin SupportedKinds(args.sink))
    => /\ result[1].outcome = "fulfilled"
       /\ \A i \in DOMAIN args.payloads :
              (/\ args.payloads[i].type \in SupportedKinds(args.sink)
               /\ args.sink = "datadog" => ~StartsWith(args.payloads[i].name, WorkerPrefix))
              => args.payloads[i].name \in SentNames(args.sink, result[1].requests)

\* ---- properties of the Datadog sink with per-sample histogram points ----
\* the requests of the call made to that endpoint
PostsTo(endpoint) ==
    SelectSeq(result[1].requests, LAMBDA r : r.endpoint = endpoint)

\* the names of the metrics posted to that endpoint
PostedTo(endpoint) ==
    UNION {{r.series[i].metric : i \in DOMAIN r.series} :
              r \in {PostsTo(endpoint)[j] : j \in DOMAIN PostsTo(endpoint)}}

\* C31: whenever a POST issued by DatadogMetricSink.sendMetrics fails, on the
\* distribution points endpoint or on the metrics series endpoint, the
\* promise sendMetrics returned is rejected.
C31_DeliveryFailureRejects ==
    (/\ result # <<>>
     /\ \E i \in DOMAIN result[1].requests : ~result[1].requests[i].ok)
    => result[1].outcome = "rejected"

\* C38: in the sink with per-sample histogram points, every histogram
\* payload of a send is posted to the distribution points endpoint and not
\* to the series endpoint, and every COUNT or GAUGE payload the sink
\* forwards is posted to the series endpoint.
C38_HistogramsToDistributionPoints ==
    (result # <<>> /\ args.apiKey) =>
        \A i \in DOMAIN args.payloads :
            LET p == args.payloads[i]
            IN  /\ p.type = "HISTOGRAM" =>
                      /\ p.name \in PostedTo("api/v1/distribution_points")
                      /\ p.name \notin PostedTo("api/v1/series")
                /\ (p.type \in {"COUNT", "GAUGE"} /\ ~StartsWith(p.name, WorkerPrefix)) =>
                      p.name \in PostedTo("api/v1/series")

\* ---- further properties of LogsTail ----
\* the timers ever armed
Timers == {t \in DOMAIN tasks : tasks[t].kind = "timer"}

\* C32: the flush id never decreases: it grows by exactly one when a
\* processTraceItems call arms a timer or flushes on size, and a timer wake
\* (flushing or stale) and a coalesced batch leave it as it is; the flush
\* ids captured by different timers are pairwise different.
C32_FlushIdMonotone ==
    /\ [][/\ flushId' >= flushId
          /\ \A k \in 0..MaxBatch :
                ProcessTraceItems(k) =>
                   IF Len(Buffer) + k >= maxBufferSize
                   THEN flushId' = flushId + 1
                   ELSE IF ~flushScheduled /\ Len(Buffer) + k > 0
                   THEN /\ flushId' = flushId + 1
                        /\ Len(tasks') = Len(tasks) + 1
                        /\ tasks'[Len(tasks')].kind = "timer"
                        /\ tasks'[Len(tasks')].localFlushId = flushId'
                   ELSE flushId' = flushId /\ tasks' = tasks
          /\ \A t \in DOMAIN tasks : TimerWake(t) => flushId' = flushId]_vars
    /\ [](\A t, u \in Timers :
             t # u => tasks[t].localFlushId # tasks[u].localFlushId)

\* C32 witness: two timers were armed with a size-triggered flush between
\* them, the first has woken stale and the second has woken and flushed.
C32_Witness ==
    /\ flushId = 3
    /\ \E t, u \in Timers, j \in SizeTasks :
          /\ t < j /\ j < u
          /\ tasks[t].wait = "resolved" /\ tasks[t].flush = 0
          /\ tasks[u].wait = "resolved" /\ tasks[u].flush # 0

\* C33: the step that takes the snapshot and clears the buffer also invokes
\* every sink with that snapshot, all of them pending before any outcome is
\* awaited.  A flush once started is never taken back or changed, whatever
\* happens to the flush id: only the outcomes of its sinks are filled in.
\* While a sink of an earlier flush has not settled, a batch that reaches the
\* threshold still starts the next flush.
C33_SinksInvokedTogether ==
    /\ [][/\ Len(flushes') >= Len(flushes)
          /\ Len(flushes') > Len(flushes) =>
                LET new == flushes'[Len(flushes')]
                IN  /\ Len(flushes') = Len(flushes) + 1
                    /\ \A s \in Sinks :
                          new.sinks[s] = [status |-> "pending", arg |-> new.items]
                    /\ arrays'[new.items] = Buffer \/ \E k \in 1..MaxBatch :
                          arrays'[new.items] = Buffer \o Batch(k)
                    /\ dbItems' # new.items
                    /\ arrays'[dbItems'] = <<>>
          /\ \A f \in DOMAIN flushes :
                /\ flushes'[f].items = flushes[f].items
                /\ flushes'[f].handed = flushes[f].handed
                /\ \A s \in Sinks :
                      /\ flushes'[f].sinks[s].arg = flushes[f].sinks[s].arg
                      /\ flushes[f].sinks[s].status # "pending" =>
                            flushes'[f].sinks[s].status # "pending"
                /\ flushId' # flushId => flushes'[f] = flushes[f]]_vars
    /\ [](\A k \in 1..MaxBatch :
             (/\ InFlight # {}
              /\ Cardinality(InFlight) < MaxInFlight
              /\ flushId < MaxFlushId
              /\ appended + k <= MaxItems
              /\ Len(Buffer) + k >= maxBufferSize)
             => ENABLED (ProcessTraceItems(k) /\ Len(flushes') = Len(flushes) + 1))

\* C33 witness: one sink of the first flush has not settled while another
\* sink of it has, and a second flush was started and has run to completion.
C33_Witness ==
    /\ Len(flushes) = 2
    /\ \E s, r \in Sinks :
          /\ flushes[1].sinks[s].status = "pending"
          /\ flushes[1].sinks[r].status \in {"fulfilled", "rejected"}
    /\ flushes[2].done

\* C34: with a maxBufferSize of at least 1, the buffer holds fewer than
\* maxBufferSize items whenever processTraceItems has returned, after any
\* sequence of calls and timer wakes.
C34_BufferBelowThreshold == maxBufferSize >= 1 => Len(Buffer) < maxBufferSize

\* C34 witness: after a flush on size the buffer has filled again up to one
\* item below the threshold.
C34_Witness ==
    /\ SizeTasks # {}
    /\ maxBufferSize > 1
    /\ Len(Buffer) = maxBufferSize - 1

\* C35: between the operations of a LogsTail, flushScheduled is true exactly
\* when the buffer is non-empty; buffered items always have an armed timer,
\* one that is pending and holds the current flush id; and a timer wake that
\* flushes finds a non-empty buffer.
C35_ScheduledIffBuffered ==
    /\ [](flushScheduled <=> Len(Buffer) > 0)
    /\ [](Len(Buffer) > 0 => LiveTimers # {})
    /\ [][\A t \in DOMAIN tasks :
             (TimerWake(t) /\ StillCurrent(tasks[t].localFlushId, flushId))
                => Len(Buffer) > 0]_vars

\* C36: a processTraceItems call that brings the buffer to maxBufferSize or
\* beyond starts one flush whose snapshot is the whole buffer, the items
\* beyond maxBufferSize included: every sink is sent that one array, once,
\* and nothing is left in the buffer.
C36_WholeBufferInOneSend ==
    [][\A k \in 0..MaxBatch :
          (ProcessTraceItems(k) /\ Len(Buffer) + k >= maxBufferSize) =>
             /\ Len(flushes') = Len(flushes) + 1
             /\ DOMAIN flushes'[Len(flushes')].sinks = Sinks
             /\ \A s \in Sinks :
                   arrays'[flushes'[Len(flushes')].sinks[s].arg] = Buffer \o Batch(k)
             /\ arrays'[dbItems'] = <<>>]_vars

\* C36 witness: a flush on size whose snapshot holds more than maxBufferSize
\* items, some of them buffered before the call.
C36_Witness ==
    \E j \in SizeTasks :
        /\ tasks[j].flush # 0
        /\ Len(flushes[tasks[j].flush].handed) > maxBufferSize
        /\ Len(flushes[tasks[j].flush].handed) > MaxBatch

\* C37: storeMetric of an emission of kind DISTRIBUTION leaves the store as
\* it is: no entry is created or modified, and getMetricCount returns the
\* same before and after.
C37_DistributionStoresNothing ==
    [][\A e \in Emissions :
          (StoreMetricCall(e) /\ e.type = "DISTRIBUTION") =>
             /\ metrics' = metrics
             /\ GetMetricCount(metrics') = GetMetricCount(metrics)]_vars

\* C37 witness: a DISTRIBUTION emission was stored into an empty store, which
\* is still empty, and another one after a COUNT of the same name and tags.
C37_Witness ==
    /\ Len(dbCalls) = 3
    /\ dbCalls[1].type = "DISTRIBUTION"
    /\ dbCalls[2].type = "COUNT" /\ dbCalls[2].name = dbCalls[1].name
    /\ dbCalls[2].tags = dbCalls[1].tags
    /\ dbCalls[3].type = "DISTRIBUTION"
    /\ GetMetricCount(metrics) = 1

\* ---- properties of OtelMetricSink.timestampToNanos ----
\* the integer a decimal string stands for
ParseBigInt(digits) ==
    IF Head(digits) = "-" THEN 0 - ParseDigits(Tail(digits)) ELSE ParseDigits(digits)

\* C39: with enableNanoSecondTimestampJitter the result differs from
\* t * 1000000 by at least -499999 and at most 499999 for every timestamp t
\* and every draw; without the option it is exactly t * 1000000.
C39_JitterWithinMillisecond ==
    result # <<>> =>
        LET nanos == ParseBigInt(result[1])
            exact == args.timestampMs * 1000000
        IN  IF args.jitter
            THEN nanos - exact >= -499999 /\ nanos - exact <= 499999
            ELSE nanos = exact
====
